---- MODULE Spec2Model ----
(***************************************************************************)
(* Verification model of the resilience wrappers, the embedding retry      *)
(* loop and the emoji catalog cache of slack_emoji_wachawacha.             *)
(*                                                                         *)
(*   Spec            create_circuit_breaker around a synchronous operation *)
(*   SpecEmbed       OpenAIService._get_embedding_with_circuit_breaker     *)
(*   SpecSearch      EmojiService.find_similar_emojis and its breaker      *)
(*   SpecCatalogSeq  EmojiService catalog cache, one operation at a time   *)
(*   SpecCatalog     EmojiService catalog cache, interleaved tasks         *)
(*   SpecEmbCache    OpenAIService.get_embedding and its LRU cache         *)
(*   SpecVectorize   EmojiService.vectorize_all_emojis over the store      *)
(*   SpecBatch       EmojiService.vectorize_emojis_batch over the store    *)
(*   SpecSim         DatabaseService.find_similar_emojis                   *)
(*   SpecSlack       SlackHandler.handle_message                           *)
(*   SpecText        EmojiService text-based similarity search             *)
(*   SpecCommand     SlashCommandHandler and PermissionManager             *)
(*   SpecReact       SlackHandler.add_reactions and its retry loop         *)
(*   SpecLimiter     SlackHandler._check_rate_limit, interleaved tasks     *)
(***************************************************************************)
EXTENDS Integers, Sequences, FiniteSets, TLC

VARIABLES
    now,                \* wall clock read by datetime.now(timezone.utc), in seconds
    failure_threshold,  \* create_circuit_breaker(failure_threshold=...)
    timeout_seconds,    \* create_circuit_breaker(timeout_seconds=...)
    cb,                 \* the CircuitBreaker object around the synchronous operation
    lastCall,           \* history: what the last call through the wrapper did
    hist,               \* history: runs of failures seen by the callers
    base_delay,         \* OpenAIService.base_delay
    embCb,              \* the CircuitBreaker object decorating the embedding request
    emb,                \* the running embedding request (position, loop variable, log)
    embHist,            \* history: outcomes of the finished embedding requests
    searchCb,           \* the CircuitBreaker object decorating the similarity search
    search,             \* the running find_similar_emojis call and its history
    cache_enabled,      \* EmojiService.cache_enabled
    emoji_cache,        \* EmojiService.emoji_cache: code -> record
    store,              \* the emojis table: id -> row
    task,               \* each task's running catalog operation
    catHist,            \* history: writes executed and acknowledged
    sequential,         \* TRUE when the callers run one catalog operation at a time
    emb_cache_enabled,  \* OpenAIService._cache_enabled
    cache_max_size,     \* OpenAIService._cache_max_size
    emb_cache,          \* OpenAIService._cache: the OrderedDict, oldest entry first
    etask,              \* each task's running get_embedding call
    ecHist,             \* history: accesses, evictions and results of get_embedding
    vstore,             \* the emojis table as vectorize_all_emojis sees it
    vrun,               \* the running (or last finished) vectorize_all_emojis call
    vHist,              \* history: the run before it
    brun,               \* the vectorize_emojis_batch call
    sim,                \* the DatabaseService.find_similar_emojis call
    slack,              \* the SlackHandler and the message it handles
    tsearch,            \* the running (or last) text-based similarity search
    perms,              \* the admin_users table: user -> permission, or no row
    cmd,                \* the SlashCommandHandler: last command, tasks, history
    react,              \* the running add_reactions call and reaction_metrics
    limiter             \* rate_limit_max, rate_limit_window and the waiting tasks

vars == << now, failure_threshold, timeout_seconds, cb, lastCall, hist,
           base_delay, embCb, emb, embHist, searchCb, search,
           cache_enabled, emoji_cache, store, task, catHist, sequential,
           emb_cache_enabled, cache_max_size, emb_cache, etask, ecHist,
           vstore, vrun, vHist, brun, sim, slack, tsearch, perms, cmd,
           react, limiter >>

breakerVars == << failure_threshold, timeout_seconds, cb, lastCall, hist >>
embedVars   == << base_delay, embCb, emb, embHist >>
searchVars  == << searchCb, search >>
catalogVars == << cache_enabled, emoji_cache, store, task, catHist, sequential >>
embCacheVars == << emb_cache_enabled, cache_max_size, emb_cache, etask, ecHist >>
vectVars == << vstore, vrun, vHist >>
batchVars == << brun >>
simVars == << sim >>
slackVars == << slack >>
textVars == << tsearch >>
commandVars == << perms, cmd >>
reactVars == << react >>
limiterVars == << limiter >>

----------------------------------------------------------------------------
(* Bounds of the model.                                                    *)

MaxThreshold == 3       \* failure_threshold ranges over 1..MaxThreshold
MaxTimeout == 2         \* timeout_seconds ranges over 0..MaxTimeout
MaxClock == 5           \* the clock of Spec stops here
MaxBaseDelay == 2       \* base_delay ranges over 1..MaxBaseDelay
TickSeconds == 30       \* the clock of SpecEmbed and SpecSearch advances by this
MaxAsyncClock == 120    \* and stops here
MaxIds == 2             \* ids of emoji rows: 1..MaxIds
MaxTasks == 2           \* tasks calling the EmojiService
MaxWrites == 2          \* update_emoji calls started in one behaviour
MaxDeletes == 1         \* delete_emoji calls started in one behaviour
MaxTextLen == 3         \* texts passed to get_embedding have at most this many characters
MaxLongTextLen == 5     \* texts whose normal form is computed without a call
MaxCacheSize == 2       \* enable_cache(max_size) ranges over 0..MaxCacheSize
MaxEmbCalls == 4        \* get_embedding calls started in one behaviour
MaxRows == 2            \* rows of the catalog that differ from one another
MaxRuns == 2            \* vectorize_all_emojis calls in one behaviour
MaxBatchRows == 5       \* rows of the table in a vectorize_emojis_batch run
MaxBatchSize == 3       \* batch_size ranges over 0..MaxBatchSize
MaxSimRows == 2         \* rows of the table in a similarity search
MaxLimit == 2           \* limit ranges over 0..MaxLimit
MaxMessages == 3        \* messages handled in one behaviour
MaxEmojis == 2          \* emojis a search returns for a message
MaxTextCalls == 2       \* text-based searches in one behaviour
MaxCommands == 2        \* slash commands and button actions in one behaviour
MaxReactions == 2       \* emojis passed to one add_reactions call
MaxReactCalls == 1      \* add_reactions calls in one behaviour
MaxLimiterTasks == 2    \* messages handled concurrently
MaxRateLimit == 2       \* set_rate_limit(N) with N in 1..MaxRateLimit
MaxPasses == 3          \* _check_rate_limit calls in one behaviour
MaxLimiterClock == 1400 \* time.time() stops here (tenths of a second)
LimiterTick == 200      \* the clock advances by this much (tenths of a second)

Min(a, b) == IF a < b THEN a ELSE b
Max(a, b) == IF a > b THEN a ELSE b

RECURSIVE Pow2(_)
Pow2(n) == IF n = 0 THEN 1 ELSE 2 * Pow2(n - 1)

----------------------------------------------------------------------------
(* create_circuit_breaker: the CircuitBreaker object and its wrapper.      *)

NoTime == -1            \* last_failure_time is None

NewBreaker == [failure_count |-> 0, last_failure_time |-> NoTime, is_open |-> FALSE]

\* Mutant of reset: the failure count survives the reset.
reset_KeepsCount(b) == [b EXCEPT !.last_failure_time = NoTime, !.is_open = FALSE]

reset(b) == [failure_count |-> 0, last_failure_time |-> NoTime, is_open |-> FALSE]

\* Mutant of WrapperCheck: the breaker already resets when exactly
\* timeout seconds have passed.
WrapperCheck_ResetAtTimeout(b, t, timeout) ==
    IF b.is_open
    THEN IF b.last_failure_time # NoTime /\ t - b.last_failure_time >= timeout
         THEN "reset"
         ELSE "open"
    ELSE "pass"

\* The test of the wrapper's first lines: "open" (raise ServiceError
\* CIRCUIT_BREAKER_OPEN), "reset" (the timeout has passed) or "pass".
WrapperCheck(b, t, timeout) ==
    IF b.is_open
    THEN IF b.last_failure_time # NoTime /\ t - b.last_failure_time > timeout
         THEN "reset"
         ELSE "open"
    ELSE "pass"

\* Mutant of OnSuccess: a success leaves the failure count as it was.
OnSuccess_KeepsCount(b) == b

\* try: result = func(...); self.failure_count = 0; return result
OnSuccess(b) == [b EXCEPT !.failure_count = 0]

\* except Exception: count, stamp, open at the threshold, re-raise
OnFailure(b, t, threshold) ==
    LET n == b.failure_count + 1
    IN [failure_count |-> n,
        last_failure_time |-> t,
        is_open |-> IF n >= threshold THEN TRUE ELSE b.is_open]

\* One call of wrapper(*args): funcRaises tells whether func(*args, **kwargs)
\* itself raised.  The result names the breaker afterwards, what the caller
\* got ("open", "raised" or "returned") and whether func was invoked.
wrapper(b, t, threshold, timeout, funcRaises) ==
    LET chk == WrapperCheck(b, t, timeout)
        b1  == IF chk = "reset" THEN reset(b) ELSE b
    IN  IF chk = "open"
        THEN [cb |-> b, outcome |-> "open", invoked |-> FALSE, didReset |-> FALSE]
        ELSE IF funcRaises
             THEN [cb |-> OnFailure(b1, t, threshold), outcome |-> "raised",
                   invoked |-> TRUE, didReset |-> chk = "reset"]
             ELSE [cb |-> OnSuccess(b1), outcome |-> "returned",
                   invoked |-> TRUE, didReset |-> chk = "reset"]

----------------------------------------------------------------------------
(* The breaker around a synchronous operation (tests/test_error_handler). *)

Values == {"a", "b"}            \* what the wrapped operation may return
HistCap == MaxThreshold + 2     \* the history counters saturate here

NoCall == [outcome |-> "none", invoked |-> FALSE, value |-> "none",
           opValue |-> "none", trial |-> FALSE, preConsec |-> 0, preSince |-> 0, preWithin |-> FALSE]

NoHist == [consec |-> 0, maxRun |-> 0, sinceClosed |-> 0, total |-> 0,
           lastFail |-> NoTime, parity |-> 0]

\* Whether a call arriving at time t is within timeout of the last failure
\* the callers saw.
WithinTimeout(h, t, timeout) == h.lastFail # NoTime /\ t - h.lastFail <= timeout

\* The callers' own bookkeeping of one call, written from what they observe
\* (the outcome), the clock and the breaker's parameters only.
HistAfterCall(h, t, threshold, timeout, outcome) ==
    LET expired == h.sinceClosed >= threshold /\ ~WithinTimeout(h, t, timeout)
        since0  == IF expired THEN 0 ELSE h.sinceClosed
    IN  CASE outcome = "raised" ->
               [consec |-> Min(h.consec + 1, HistCap),
                maxRun |-> Max(h.maxRun, Min(h.consec + 1, HistCap)),
                sinceClosed |-> Min(since0 + 1, HistCap),
                total |-> Min(h.total + 1, HistCap),
                lastFail |-> t,
                parity |-> 1 - h.parity]
          [] outcome = "returned" ->
               [h EXCEPT !.consec = 0, !.sinceClosed = 0, !.parity = 1 - h.parity]
          [] OTHER ->
               [h EXCEPT !.parity = 1 - h.parity]

\* A caller calls the decorated operation; res is what the operation does
\* if it is invoked: "raise", or the value it returns.
SyncCall(res) ==
    LET w == wrapper(cb, now, failure_threshold, timeout_seconds, res = "raise")
    IN  /\ cb' = w.cb
        /\ lastCall' = [outcome |-> w.outcome,
                        invoked |-> w.invoked,
                        value |-> IF w.outcome = "returned" THEN res ELSE "none",
                        opValue |-> IF w.invoked /\ res # "raise" THEN res ELSE "none",
                        trial |-> w.didReset,
                        preConsec |-> hist.consec,
                        preSince |-> hist.sinceClosed,
                        preWithin |-> WithinTimeout(hist, now, timeout_seconds)]
        /\ hist' = HistAfterCall(hist, now, failure_threshold, timeout_seconds, w.outcome)
        /\ UNCHANGED << now, failure_threshold, timeout_seconds >>
        /\ UNCHANGED << embedVars, searchVars, catalogVars, embCacheVars, vectVars, batchVars, simVars, slackVars,
                        textVars, commandVars, reactVars, limiterVars >>

Call == \E res \in Values \cup {"raise"} : SyncCall(res)

\* wrapper.reset(): the reset method exposed on the wrapper.
ManualReset ==
    /\ cb' = reset(cb)
    /\ hist' = [hist EXCEPT !.consec = 0, !.sinceClosed = 0]
    /\ UNCHANGED << now, failure_threshold, timeout_seconds, lastCall >>
    /\ UNCHANGED << embedVars, searchVars, catalogVars, embCacheVars, vectVars, batchVars, simVars, slackVars,
                    textVars, commandVars, reactVars, limiterVars >>

\* A second passes.
Tick ==
    /\ now < MaxClock
    /\ now' = now + 1
    /\ UNCHANGED << breakerVars, embedVars, searchVars, catalogVars, embCacheVars, vectVars, batchVars, simVars, slackVars,
                    textVars, commandVars, reactVars, limiterVars >>

----------------------------------------------------------------------------
(* The emoji catalog: rows of the emojis table and the EmojiService cache. *)

Ids == 1..MaxIds
Tasks == 1..MaxTasks

\* The code of the row with id i (codes are unique and UPDATE keeps them).
CodeOf(i) == ":e" \o ToString(i) \o ":"
Codes == {CodeOf(i) : i \in Ids}

\* Python's None where an EmojiData is expected.
None == [id |-> 0, code |-> "none", ver |-> 0]

\* An EmojiData: ver stands for the content (description, ...) of the row.
Row(i, v) == [id |-> i, code |-> CodeOf(i), ver |-> v]

\* SELECT ... FROM emojis WHERE code = %s; fetchone()
RowByCode(st, c) ==
    IF \E i \in Ids : st[i] # None /\ st[i].code = c
    THEN st[CHOOSE i \in Ids : st[i] # None /\ st[i].code = c]
    ELSE None

NoTask == [pc |-> "idle", id |-> 0, code |-> "none", fetched |-> None,
           current |-> None, failed |-> FALSE, ver |-> 0, startAck |-> 0, afterUpdate |-> FALSE,
           evicted |-> FALSE, gone |-> FALSE, absent |-> FALSE, success |-> FALSE]

\* gone: a delete_emoji of the row had returned True when the get started;
\* absent: the store held no row of the code then; hit: the cache entry the
\* get found (None on a miss); put: the get wrote the cache.
NoGet == [id |-> 0, result |-> None, queried |-> FALSE, answered |-> FALSE,
          current |-> None, startAck |-> 0, afterUpdate |-> FALSE,
          evicted |-> FALSE, gone |-> FALSE, absent |-> FALSE, hit |-> None,
          put |-> FALSE]

NoCatHist == [started |-> 0, writes |-> 0, deletes |-> 0,
              gone |-> [i \in Ids |-> FALSE],
              acked |-> [i \in Ids |-> 0],
              fresh |-> [i \in Ids |-> FALSE],
              evicted |-> [i \in Ids |-> FALSE],
              lastGet |-> NoGet]

EmptyCache == [c \in Codes |-> None]

----------------------------------------------------------------------------
(* Texts, their normal form and the OrderedDict of OpenAIService.          *)

\* Characters of a text: a space, a tab and a letter.
Chars == {" ", "\t", "a"}

\* str.split() and str.strip() treat every whitespace character alike.
IsSpace(ch) == ch \in {" ", "\t"}

Texts == UNION {[1..n -> Chars] : n \in 0..MaxTextLen}
LongTexts == UNION {[1..n -> Chars] : n \in 0..MaxLongTextLen}

\* not text.strip(): nothing but whitespace.
Blank(text) == \A i \in 1..Len(text) : IsSpace(text[i])

\* text.split(): the maximal runs of non-whitespace characters, in order.
RECURSIVE SplitFrom(_, _, _)
SplitFrom(text, i, word) ==
    IF i > Len(text)
    THEN IF word = << >> THEN << >> ELSE << word >>
    ELSE IF IsSpace(text[i])
         THEN IF word = << >>
              THEN SplitFrom(text, i + 1, << >>)
              ELSE << word >> \o SplitFrom(text, i + 1, << >>)
         ELSE SplitFrom(text, i + 1, Append(word, text[i]))

split(text) == SplitFrom(text, 1, << >>)

\* " ".join(words)
RECURSIVE join(_)
join(words) ==
    IF words = << >> THEN << >>
    ELSE IF Len(words) = 1 THEN words[1]
    ELSE words[1] \o << " " >> \o join(Tail(words))

\* Mutant of preprocess_text: the text is used as it is.
preprocess_text_Raw(text) == text

\* OpenAIService._preprocess_text
preprocess_text(text) == join(split(text))

\* The keys the cache can hold.
Keys == {preprocess_text(x) : x \in {y \in Texts : ~Blank(y)}}

\* Embedding vectors the provider may return, told apart by name.
Vectors == {"v1", "v2"}

Has(c, k) == \E i \in 1..Len(c) : c[i].key = k
IndexOf(c, k) == CHOOSE i \in 1..Len(c) : c[i].key = k
Without(c, k) == SelectSeq(c, LAMBDA e : e.key # k)
KeysOf(c) == [i \in 1..Len(c) |-> c[i].key]

\* Mutant of move_to_end: a hit leaves the order as it is.
move_to_end_Stays(c, k) == c

\* OrderedDict.move_to_end(key)
move_to_end(c, k) == Append(Without(c, k), c[IndexOf(c, k)])

\* OrderedDict.__setitem__: a new key goes to the end, an existing key keeps
\* its position and gets the new value.
setitem(c, k, v) ==
    IF Has(c, k) THEN [c EXCEPT ![IndexOf(c, k)] = [key |-> k, vec |-> v]]
    ELSE Append(c, [key |-> k, vec |-> v])

\* Mutant of popitem_first: the newest entry is dropped.
popitem_first_Last(c) == SubSeq(c, 1, Len(c) - 1)

\* OrderedDict.popitem(last=False)
popitem_first(c) == Tail(c)

\* Mutant of Evict: the size test is off by one.
Evict_OffByOne(c, size) == IF Len(c) > size + 1 THEN popitem_first(c) ELSE c

\* if len(self._cache) > self._cache_max_size: self._cache.popitem(last=False)
Evict(c, size) == IF Len(c) > size THEN popitem_first(c) ELSE c

\* The normal form of a text as the specification words it: every run of
\* whitespace becomes one space and the ends are trimmed.
RECURSIVE NormalFrom(_, _, _, _)
NormalFrom(text, i, out, gap) ==
    IF i > Len(text) THEN out
    ELSE IF IsSpace(text[i])
         THEN NormalFrom(text, i + 1, out, out # << >>)
         ELSE NormalFrom(text, i + 1,
                         (IF gap THEN Append(out, " ") ELSE out) \o << text[i] >>,
                         FALSE)

NormalForm(text) == NormalFrom(text, 1, << >>, FALSE)

\* self._cache_max_size before enable_cache is called.
DefaultCacheMaxSize == 100

\* A running get_embedding call.  plain: its text was already in normal
\* form; cached / held: an entry for the normal form of its text was in the
\* cache when the call started, and the vector it held.
NoETask == [pc |-> "idle", key |-> << >>, plain |-> FALSE,
            cached |-> FALSE, held |-> "none"]

\* What the last get_embedding call to end did.  plain: its text was already
\* in normal form; provider: it awaited the provider; held: the vector of
\* the entry it found; seen: the vectors the calls on its key had returned
\* since the entry was created; byPlain: the entry was created by a call
\* whose text was in normal form.
NoECall == [kind |-> "none", key |-> << >>, plain |-> FALSE,
            result |-> "none", provider |-> FALSE,
            cached |-> FALSE, held |-> "none",
            seen |-> {}, byPlain |-> FALSE]

\* used: the cached keys by their last access (insertion or hit), oldest
\* first; evicted / lru: the key the last eviction dropped and the key that
\* was least recently accessed then.
NoEcHist == [calls |-> 0, used |-> << >>, evicted |-> << >>, lru |-> << >>,
             evictions |-> 0,
             seen |-> [k \in Keys |-> {}],
             byPlain |-> [k \in Keys |-> FALSE],
             last |-> NoECall]

\* The default page of get_all_emojis(limit=100, offset=0).
PageLimit == 100

\* The emojis table is kept as a number of fill rows that are alike
\* (embedded, category "a", tone "positive", their embedding requests
\* succeed), with the ids 1..fill, followed by up to MaxRows rows of any
\* kind, with the ids after them.  A page of the table has the same shape.
Fills == {1, PageLimit - 1}
Categories == {"a", "b"}
Tones == {"positive", "negative"}

\* category=None, emotion_tone=None
NoFilter == "none"

FillRow(i) == [id |-> i, embedded |-> TRUE, category |-> "a",
               emotion_tone |-> "positive"]

\* len() of a table or of a page of it
Size(vs) == vs.fill + Len(vs.rows)

\* What the filters read of a row.
RowKinds == [embedded : BOOLEAN, category : Categories, emotion_tone : Tones]

KindOf(e) == [embedded |-> e.embedded, category |-> e.category,
              emotion_tone |-> e.emotion_tone]

\* The number of rows of vs whose kind is in kinds, and their ids.
CountOf(vs, kinds) ==
    (IF KindOf(FillRow(1)) \in kinds THEN vs.fill ELSE 0)
        + Len(SelectSeq(vs.rows, LAMBDA e : KindOf(e) \in kinds))

IdsOf(vs, kinds) ==
    (IF KindOf(FillRow(1)) \in kinds THEN 1..vs.fill ELSE {})
        \cup {vs.rows[j].id :
                 j \in {k \in DOMAIN vs.rows : KindOf(vs.rows[k]) \in kinds}}

NoOpts == [skip_existing |-> FALSE, category |-> NoFilter,
           emotion_tone |-> NoFilter, dry_run |-> FALSE]

\* fetched: len(all_emojis); survivors: ids of filtered_emojis; updates:
\* keys of embedding_updates; failed: rows whose embedding request raised;
\* calls: get_embedding calls; writes: batch_update_embeddings calls; sent:
\* the ids passed to batch_update_embeddings; rows / embeddedRows /
\* failingRows: the size of the table when the run started, its rows
\* excluded by skip_existing, and its other rows that fail a filter.
\* invalid: the rows whose get_embedding call raised ValueError("Text
\* cannot be empty").
\* progress: the calls of progress_callback for the rows after the fill
\* rows, in the order they were made, each with (current, total, row);
\* progressFill: the number of calls made for fill rows before them, the
\* k-th of them with (k, total, row k).
NoRun == [pc |-> "idle", opts |-> NoOpts, result |-> "none", fetched |-> 0,
          survivors |-> {}, filtered_out |-> 0, skipped |-> 0, total |-> 0,
          processed |-> 0, updates |-> {}, failed |-> {}, calls |-> 0,
          writes |-> 0, sent |-> {}, storeFailed |-> FALSE, invalid |-> {},
          rows |-> 0, embeddedRows |-> 0, failingRows |-> 0,
          progress |-> << >>, progressFill |-> 0]

NoPrev == [clean |-> FALSE, skip_existing |-> FALSE, category |-> NoFilter,
           emotion_tone |-> NoFilter, processed |-> 0]

NoVHist == [runs |-> 0, prev |-> NoPrev]

\* successful, failed, embedding_updates: the locals of
\* vectorize_emojis_batch; i: the offset of the chunk at hand; ids: the ids
\* of all_emojis in order; providerFailed / storeFailed: the rows of the
\* chunks whose get_embeddings_batch / batch_update_embeddings raised;
\* persisted: the rows a successful batch update wrote; placeholders: the
\* number of zero vectors get_embeddings_batch returned; lateCalls: calls of
\* the provider or the store made after a chunk had failed; peak: the
\* largest size embedding_updates had; zeroed: the rows whose own request
\* failed and that got a zero vector in its place.
NoBatch == [pc |-> "idle", result |-> "none", batch_size |-> 1,
            continue_on_error |-> FALSE, ids |-> << >>, i |-> 0,
            successful |-> 0, failed |-> 0, embedding_updates |-> {},
            providerFailed |-> {}, storeFailed |-> {}, persisted |-> {},
            placeholders |-> 0, lateCalls |-> 0, peak |-> 0, zeroed |-> {}]

IdleBatch == brun = NoBatch

\* The dimension of the embedding column and of a valid query vector.
VectorDim == 1536

\* len(query_vector)
Dims == {0, VectorDim - 1, VectorDim, VectorDim + 1}

Scenes == {"chat", "work"}

\* embedding <=> query: NULL for a row without embedding, else the cosine
\* distance in tenths (0..20), or NaN; NULL and NaN are written as
\* negative numbers.
Null == 0 - 1
NaN == 0 - 2
Distances == {NaN, 0, 5, 15}

SimRows == [distance : Distances \cup {Null}, category : Categories,
            emotion_tone : Tones, usage_scene : Scenes]

\* filters: a value for each of the three keys the query knows, or NoFilter
\* when the key is absent; other: some other key is present.
FilterMaps == [emotion_tone : {NoFilter, "positive"}, category : {NoFilter, "a"},
               usage_scene : {NoFilter, "chat"}, other : BOOLEAN]

NoFilters == [emotion_tone |-> NoFilter, category |-> NoFilter,
              usage_scene |-> NoFilter, other |-> FALSE]

\* table: the rows of emojis, by id; dim, limit, filters: the arguments;
\* executed: cursor.execute calls; results: the returned list, each
\* element a row with its similarity_score (in tenths).
NoSim == [pc |-> "idle", table |-> << >>, dim |-> VectorDim, limit |-> 0,
          filters |-> NoFilters, result |-> "none", executed |-> 0,
          results |-> << >>]

IdleSim == sim = NoSim

\* kind: the shape of the message at hand; found: the emoji names the
\* search gave for it; status: how the handling of the last message ended;
\* posted: the reactions added to it; raised: an exception left
\* handle_message; handled: messages handled so far; failures: the steps
\* that have failed so far.
NoSlack == [pc |-> "idle", kind |-> "none", found |-> 0, status |-> "none",
            posted |-> 0, raised |-> FALSE, handled |-> 0, failures |-> {}]

IdleSlack == slack = NoSlack

\* method: the method called; text: its argument; produced: the vector
\* get_embedding gave for the text; queried: the query_vector handed to
\* the search; embedCalls, queries: get_embedding calls and store queries
\* so far; finished: the calls that have ended.
NoTextSearch == [pc |-> "idle", method |-> "none", text |-> << >>,
                 produced |-> "none", queried |-> "none", result |-> "none",
                 embedCalls |-> 0, queries |-> 0, finished |-> 0]

IdleText == tsearch = NoTextSearch

\* Slack users; the values of Permission; a user without a row.
Users == {"U1", "U2"}
Permissions == {"viewer", "editor", "admin"}
NoRow == "none"

\* The last check_permission call: its arguments, what get_admin_user
\* returned for the user (row), and the result.
NoCheck == [made |-> FALSE, user |-> "none", required |-> "none",
            readOk |-> TRUE, row |-> NoRow, result |-> FALSE]

NoResponse == [kind |-> "none", required |-> "none"]

\* user, subcommand, check, calls, response: the last command, the
\* emoji-service and modal calls it made and what it returned; pending:
\* the users whose _run_vectorization_task was created and has not run;
\* started: the users for whom vectorize_all_emojis was called; admitted:
\* the users for whom check_permission(user, ADMIN) has returned true;
\* handled: commands and actions so far.
NoCmd == [user |-> "none", subcommand |-> "none", check |-> NoCheck,
          calls |-> {}, response |-> NoResponse, pending |-> {},
          started |-> {}, admitted |-> {}, handled |-> 0]

IdleCommand == /\ perms = [u \in Users |-> NoRow]
               /\ cmd = NoCmd

\* n: the tasks gathered by the running add_reactions call; attempt: the
\* loop variable of each; log: the outcomes of its reactions_add calls;
\* end: how it ended; the four counters of reaction_metrics; finished:
\* add_reactions calls that have returned.
NoReact == [pc |-> "idle", n |-> 0, attempt |-> << >>, log |-> << >>,
            end |-> << >>, total_reactions |-> 0, successful_reactions |-> 0,
            failed_reactions |-> 0, retries_performed |-> 0, finished |-> 0]

IdleReact == react = NoReact

LimiterTasks == 1..MaxLimiterTasks

\* clock: time.time(), in tenths of a second; task: for each task handling
\* a message, whether it sleeps in _check_rate_limit and until when;
\* passed: the times at which a call appended its timestamp and returned;
\* started: calls so far.
NoLimiter == [rate_limit_max |-> 1, rate_limit_window |-> << >>, clock |-> 0,
              task |-> [t \in LimiterTasks |->
                          [pc |-> "idle", wake |-> 0]],
              passed |-> << >>, started |-> 0]

IdleLimiter == limiter = NoLimiter

IdleVect ==
    /\ vstore = [fill |-> 0, rows |-> << >>]
    /\ vrun = NoRun
    /\ vHist = NoVHist

IdleEmbCache ==
    /\ emb_cache_enabled = FALSE
    /\ cache_max_size = DefaultCacheMaxSize
    /\ emb_cache = << >>
    /\ etask = [t \in Tasks |-> NoETask]
    /\ ecHist = NoEcHist

\* No embedding request has been made yet.
NoRequest == [pc |-> "idle", attempt |-> 0, apiCalls |-> 0, waits |-> << >>,
              log |-> << >>, result |-> "none", preCount |-> 0]

NoEmbHist == [consecExhausted |-> 0]

\* No similarity search has been made yet.
\* cause: why the last call failed; delivered: what its caller got.
NoSearch == [pc |-> "idle", result |-> "none", queried |-> FALSE,
             preFails |-> 0, preWithin |-> FALSE,
             consecFailed |-> 0, lastFail |-> NoTime,
             cause |-> "none", delivered |-> "none"]

IdleEmbed ==
    /\ base_delay = 1
    /\ embCb = NewBreaker
    /\ emb = NoRequest
    /\ embHist = NoEmbHist

IdleSearch ==
    /\ searchCb = NewBreaker
    /\ search = NoSearch

IdleCatalog ==
    /\ cache_enabled = TRUE
    /\ emoji_cache = EmptyCache
    /\ store = [i \in Ids |-> None]
    /\ task = [t \in Tasks |-> NoTask]
    /\ catHist = NoCatHist
    /\ sequential = TRUE

IdleBreaker ==
    /\ failure_threshold = 1
    /\ timeout_seconds = 0
    /\ cb = NewBreaker
    /\ lastCall = NoCall
    /\ hist = NoHist

Init ==
    /\ now = 0
    /\ IdleText
    /\ IdleCommand
    /\ IdleReact
    /\ IdleLimiter
    /\ failure_threshold \in 1..MaxThreshold
    /\ timeout_seconds \in 0..MaxTimeout
    /\ cb = NewBreaker
    /\ lastCall = NoCall
    /\ hist = NoHist
    /\ IdleEmbed
    /\ IdleSearch
    /\ IdleCatalog
    /\ IdleEmbCache
    /\ IdleVect
    /\ IdleBatch
    /\ IdleSim
    /\ IdleSlack

Next == Call \/ ManualReset \/ Tick

Spec == Init /\ [][Next]_vars

----------------------------------------------------------------------------
(* Properties of the breaker around a synchronous operation.               *)

\* C1 as stated: after failure_threshold consecutive calls in which the
\* operation raised, every further call made while no more than
\* timeout_seconds have passed since the last failure raises the breaker-open
\* error and does not invoke the operation.
C1_OpenAfterConsecutiveFailures ==
    (lastCall.outcome # "none" /\ lastCall.preConsec >= failure_threshold
        /\ lastCall.preWithin)
    => (lastCall.outcome = "open" /\ ~lastCall.invoked)

\* C1 amended: after failure_threshold consecutive calls in which the
\* operation raised, counted since the breaker was last closed (constructed,
\* reset by hand, reset by a call arriving after the timeout, or a success),
\* every further call made while no more than timeout_seconds have passed
\* since the last failure raises the breaker-open error and does not invoke
\* the operation.
C1_OpenAfterFailuresSinceClosed ==
    (lastCall.outcome # "none" /\ lastCall.preSince >= failure_threshold
        /\ lastCall.preWithin)
    => (lastCall.outcome = "open" /\ ~lastCall.invoked)

C1_Witness ==
    /\ lastCall.preSince >= failure_threshold
    /\ lastCall.preWithin
    /\ lastCall.outcome = "open"
    /\ failure_threshold > 1

\* A step that is a call through the wrapper.
IsCallStep == hist'.parity # hist.parity

\* C2: when the breaker is open and more than timeout_seconds have passed
\* since its last recorded failure, the next call resets it to closed with a
\* zero failure count and invokes the operation: a success is returned to
\* the caller and leaves the breaker closed at count zero, a failure is the
\* first failure counted after the reset.
C2_TrialCallAfterTimeout ==
    [][ (IsCallStep /\ cb.is_open /\ cb.last_failure_time # NoTime
            /\ now - cb.last_failure_time > timeout_seconds)
        => /\ lastCall'.invoked
           /\ lastCall'.trial
           /\ lastCall'.outcome \in {"returned", "raised"}
           /\ lastCall'.outcome = "returned"
                => /\ cb' = NewBreaker
                   /\ lastCall'.value \in Values
                   /\ lastCall'.value = lastCall'.opValue
           /\ lastCall'.outcome = "raised"
                => /\ cb'.failure_count = 1
                   /\ cb'.last_failure_time = now
                   /\ cb'.is_open = (1 >= failure_threshold) ]_vars

C2_Witness ==
    /\ lastCall.trial
    /\ lastCall.outcome = "returned"
    /\ lastCall.value \in Values
    /\ cb = NewBreaker

\* C3: a successful call leaves the failure count at zero (the count never
\* exceeds the current run of consecutive failures), so the breaker is open
\* only if failure_threshold failures in a row have occurred.
C3_SuccessResetsCount ==
    /\ cb.failure_count <= hist.consec
    /\ cb.is_open => hist.maxRun >= failure_threshold

C3_Witness ==
    /\ hist.total >= failure_threshold
    /\ hist.maxRun < failure_threshold
    /\ lastCall.outcome = "returned"
    /\ cb.failure_count = 0
    /\ ~cb.is_open

----------------------------------------------------------------------------
(* OpenAIService._get_embedding_with_circuit_breaker: the retry loop inside *)
(* the breaker's wrapper.                                                   *)

max_retries == 3
EmbFailureThreshold == 3
EmbTimeoutSeconds == 60

\* What one call of self._client.embeddings.create may do.
ApiOutcomes == {"ok", "rate_limit", "auth", "api_error", "other"}

\* Calling an "async def" function runs none of its body: it returns a
\* coroutine object, so func(*args, **kwargs) in the wrapper does not raise.
CoroutineFunctionCallRaises == FALSE

\* Mutant of Retryable: an authentication failure is retried like an API error.
Retryable_WithAuth(o) == o \in {"rate_limit", "auth", "api_error"}

\* The except clauses that may sleep and go round the loop again.
Retryable(o) == o \in {"rate_limit", "api_error"}

\* Mutant of LastAttempt: the test for the last attempt is off by one.
LastAttempt_OffByOne(attempt) == attempt = max_retries + 1

\* if attempt == self.max_retries: raise OpenAIServiceError(...)
LastAttempt(attempt) == attempt = max_retries

\* Mutant of RetryDelay: the exponent is one too large.
RetryDelay_ExponentOff(bd, attempt, o) ==
    IF o = "rate_limit" THEN bd * Pow2(attempt + 1) ELSE bd

\* The argument of asyncio.sleep: base_delay * 2**attempt after a rate limit,
\* base_delay after any other API error.
RetryDelay(bd, attempt, o) ==
    IF o = "rate_limit" THEN bd * Pow2(attempt) ELSE bd

\* The error raised to the caller when attempt ends the request with o.
RaisedFor(o) ==
    CASE o = "rate_limit" -> "rate_limit_exhausted"
      [] o = "auth"       -> "auth_failed"
      [] o = "api_error"  -> "api_error_exhausted"
      [] OTHER            -> "other_error"

Exhausted(result) == result \in {"rate_limit_exhausted", "api_error_exhausted"}

\* The callers' count of consecutive requests that used up every attempt.
EmbHistAfter(h, result) ==
    [consecExhausted |->
        IF Exhausted(result) THEN Min(h.consecExhausted + 1, EmbFailureThreshold + 1)
        ELSE 0]

\* get_embedding calls self._get_embedding_with_circuit_breaker(text): the
\* wrapper runs to its end (it only creates the coroutine), and get_embedding
\* then awaits the coroutine it was handed.
EmbRequest ==
    /\ emb.pc = "idle"
    /\ LET w == wrapper(embCb, now, EmbFailureThreshold, EmbTimeoutSeconds,
                        CoroutineFunctionCallRaises)
       IN  /\ embCb' = w.cb
           /\ IF w.outcome = "open"
              THEN /\ emb' = [NoRequest EXCEPT !.result = "breaker_open",
                                               !.preCount = embCb.failure_count]
                   /\ embHist' = EmbHistAfter(embHist, "breaker_open")
              ELSE /\ emb' = [NoRequest EXCEPT !.pc = "attempt",
                                               !.preCount = embCb.failure_count]
                   /\ embHist' = embHist
    /\ UNCHANGED << now, base_delay >>
    /\ UNCHANGED << breakerVars, searchVars, catalogVars, embCacheVars, vectVars, batchVars, simVars, slackVars,
                    textVars, commandVars, reactVars, limiterVars >>

\* One pass of the loop body: the API is called and answers with o.
EmbAttemptWith(o) ==
    /\ emb.pc = "attempt"
    /\ LET called == [emb EXCEPT !.apiCalls = emb.apiCalls + 1,
                                 !.log = Append(emb.log, o)]
       IN  IF o = "ok"
           THEN /\ emb' = [called EXCEPT !.pc = "idle", !.result = "ok"]
                /\ embHist' = EmbHistAfter(embHist, "ok")
           ELSE IF Retryable(o) /\ ~LastAttempt(emb.attempt)
                THEN /\ emb' = [called EXCEPT
                                  !.pc = "sleep",
                                  !.waits = Append(emb.waits,
                                      [k |-> emb.attempt, kind |-> o,
                                       delay |-> RetryDelay(base_delay, emb.attempt, o)])]
                     /\ embHist' = embHist
                ELSE /\ emb' = [called EXCEPT !.pc = "idle", !.result = RaisedFor(o)]
                     /\ embHist' = EmbHistAfter(embHist, RaisedFor(o))
    /\ UNCHANGED << now, base_delay, embCb >>
    /\ UNCHANGED << breakerVars, searchVars, catalogVars, embCacheVars, vectVars, batchVars, simVars, slackVars,
                    textVars, commandVars, reactVars, limiterVars >>

EmbAttempt == \E o \in ApiOutcomes : EmbAttemptWith(o)

\* asyncio.sleep returns and the for loop takes its next value; when
\* range(max_retries + 1) is used up the loop ends and the final raise runs.
EmbWake ==
    /\ emb.pc = "sleep"
    /\ IF emb.attempt + 1 <= max_retries
       THEN /\ emb' = [emb EXCEPT !.pc = "attempt", !.attempt = emb.attempt + 1]
            /\ embHist' = embHist
       ELSE /\ emb' = [emb EXCEPT !.pc = "idle", !.result = "unexpected_error"]
            /\ embHist' = EmbHistAfter(embHist, "unexpected_error")
    /\ UNCHANGED << now, base_delay, embCb >>
    /\ UNCHANGED << breakerVars, searchVars, catalogVars, embCacheVars, vectVars, batchVars, simVars, slackVars,
                    textVars, commandVars, reactVars, limiterVars >>

\* Half a minute passes.
AsyncTick ==
    /\ now + TickSeconds <= MaxAsyncClock
    /\ now' = now + TickSeconds
    /\ UNCHANGED << breakerVars, embedVars, searchVars, catalogVars, embCacheVars, vectVars, batchVars, simVars, slackVars,
                    textVars, commandVars, reactVars, limiterVars >>

InitEmbed ==
    /\ now = 0
    /\ IdleText
    /\ IdleCommand
    /\ IdleReact
    /\ IdleLimiter
    /\ IdleBreaker
    /\ base_delay \in 1..MaxBaseDelay
    /\ embCb = NewBreaker
    /\ emb = NoRequest
    /\ embHist = NoEmbHist
    /\ IdleSearch
    /\ IdleCatalog
    /\ IdleEmbCache
    /\ IdleVect
    /\ IdleBatch
    /\ IdleSim
    /\ IdleSlack

NextEmbed == EmbRequest \/ EmbAttempt \/ EmbWake \/ AsyncTick

SpecEmbed == InitEmbed /\ [][NextEmbed]_vars

\* The last request is over and did call the API.
EmbFinished == emb.pc = "idle" /\ emb.log # << >>

AllRateLimited(log) == \A i \in 1..Len(log) : log[i] = "rate_limit"

\* C5 as stated: an embedding request that fails after using all
\* max_retries + 1 attempts adds exactly one to the embedding breaker's
\* failure count, and the breaker is open after 3 such requests in a row.
C5_ExhaustedRequestCountsOnce ==
    /\ (EmbFinished /\ Exhausted(emb.result))
         => embCb.failure_count = emb.preCount + 1
    /\ (emb.pc = "idle" /\ embHist.consecExhausted >= EmbFailureThreshold)
         => embCb.is_open

\* C6: a request never calls the API more than max_retries + 1 times, and
\* one whose attempts are all rate limited ends, after exactly
\* max_retries + 1 calls, with the retries-exhausted error.
C6_RateLimitedRequestStops ==
    /\ emb.apiCalls <= max_retries + 1
    /\ emb.apiCalls = Len(emb.log)
    /\ (emb.pc # "idle" /\ AllRateLimited(emb.log)) => emb.apiCalls <= max_retries
    /\ (EmbFinished /\ AllRateLimited(emb.log))
         => (emb.apiCalls = max_retries + 1 /\ emb.result = "rate_limit_exhausted")

C6_Witness ==
    /\ EmbFinished
    /\ AllRateLimited(emb.log)
    /\ emb.apiCalls = max_retries + 1
    /\ emb.result = "rate_limit_exhausted"

\* C7 as stated: after a retryable failure (rate limit or API error) on
\* attempt k the wait before attempt k+1 is base_delay * 2^k.
C7_EveryWaitIsExponential ==
    \A i \in 1..Len(emb.waits) :
        emb.waits[i].delay = base_delay * Pow2(emb.waits[i].k)

\* C7 amended: after a rate-limit error on attempt k the wait before attempt
\* k+1 is base_delay * 2^k; after a generic API error it is base_delay,
\* whatever k is; no wait exceeds base_delay * 2^(max_retries - 1).
C7_WaitByErrorKind ==
    \A i \in 1..Len(emb.waits) :
        LET w == emb.waits[i]
        IN  /\ w.k = i - 1
            /\ w.kind = emb.log[i]
            /\ w.kind = "rate_limit" => w.delay = base_delay * Pow2(w.k)
            /\ w.kind = "api_error" => w.delay = base_delay
            /\ w.kind \in {"rate_limit", "api_error"}
            /\ w.delay <= base_delay * Pow2(max_retries - 1)

C7_Witness ==
    /\ Len(emb.waits) = max_retries
    /\ emb.waits[2].kind = "api_error"
    /\ emb.waits[2].delay = base_delay
    /\ emb.waits[3].kind = "rate_limit"
    /\ emb.waits[3].delay = 4 * base_delay

\* C8 as stated: a request that meets an authentication failure has called
\* the API exactly once and taken no backoff delay.
C8_AuthRequestCallsOnce ==
    (EmbFinished /\ emb.result = "auth_failed")
    => (emb.apiCalls = 1 /\ emb.waits = << >>)

\* C8 amended: the attempt that fails with an authentication failure is the
\* last of its request: the failure is raised at once, with no API call and
\* no backoff delay after it (the only delays are those of the retryable
\* failures before it); when it is the first attempt the API has been called
\* exactly once and no delay was taken.
C8_AuthNeverRetried ==
    \A i \in 1..Len(emb.log) :
        emb.log[i] = "auth"
        => /\ i = Len(emb.log)
           /\ emb.pc = "idle"
           /\ emb.result = "auth_failed"
           /\ emb.apiCalls = i
           /\ Len(emb.waits) = i - 1
           /\ i = 1 => emb.waits = << >>

C8_Witness ==
    /\ emb.log = << "auth" >>
    /\ emb.pc = "idle"
    /\ emb.result = "auth_failed"
    /\ emb.apiCalls = 1
    /\ emb.waits = << >>

----------------------------------------------------------------------------
(* EmojiService.find_similar_emojis: the store's similarity query behind   *)
(* the breaker of _find_similar_emojis_with_circuit_breaker.               *)

SearchFailureThreshold == 5
SearchTimeoutSeconds == 60

\* Why database_service.find_similar_emojis raises: the dimension check or
\* the connection / the query.
FailureCauses == {"dimension_error", "store_error"}

\* What the caller of the decorated find_similar_emojis gets.  The wrapper of
\* with_error_handling(reraise=False, default_return=[]) returns [] when
\* func(*args, **kwargs) raises; the EmojiServiceError of the coroutine is
\* raised at the caller's await, after the wrapper has returned.
Delivered_Default(result) ==
    IF result = "ok" THEN "list" ELSE "empty"

Delivered(result) ==
    IF result = "ok" THEN "list"
    ELSE IF CoroutineFunctionCallRaises THEN "empty"
    ELSE "raised"

\* find_similar_emojis calls self._find_similar_emojis_with_circuit_breaker:
\* the wrapper runs to its end (it only creates the coroutine); an open
\* breaker raises at once, which the except clause of find_similar_emojis
\* turns into EmojiServiceError; otherwise the coroutine is awaited.
SearchCall ==
    /\ search.pc = "idle"
    /\ LET w == wrapper(searchCb, now, SearchFailureThreshold, SearchTimeoutSeconds,
                        CoroutineFunctionCallRaises)
           pre == [search EXCEPT
                     !.queried = FALSE,
                     !.result = "none",
                     !.cause = "none",
                     !.delivered = "none",
                     !.preFails = search.consecFailed,
                     !.preWithin = search.lastFail # NoTime
                                   /\ now - search.lastFail <= SearchTimeoutSeconds]
       IN  /\ searchCb' = w.cb
           /\ IF w.outcome = "open"
              THEN search' = [pre EXCEPT !.result = "breaker_open",
                                         !.cause = "breaker_open",
                                         !.delivered = Delivered("breaker_open")]
              ELSE search' = [pre EXCEPT !.pc = "await"]
    /\ UNCHANGED << now, breakerVars, embedVars, catalogVars, embCacheVars, vectVars, batchVars, simVars, slackVars,
                    textVars, commandVars, reactVars, limiterVars >>

\* The awaited coroutine runs database_service.find_similar_emojis, which
\* answers (ok) or raises; a failure reaches the caller as EmojiServiceError.
SearchStoreReply(ok) ==
    /\ search.pc = "await"
    /\ \E cause \in IF ok THEN {"none"} ELSE FailureCauses :
       search' = [search EXCEPT
                    !.pc = "idle",
                    !.queried = TRUE,
                    !.cause = cause,
                    !.delivered = Delivered(IF ok THEN "ok" ELSE "error"),
                    !.result = IF ok THEN "ok" ELSE "error",
                    !.consecFailed = IF ok THEN 0
                                     ELSE Min(search.consecFailed + 1,
                                              SearchFailureThreshold + 1),
                    !.lastFail = IF ok THEN search.lastFail ELSE now]
    /\ UNCHANGED << now, searchCb, breakerVars, embedVars, catalogVars, embCacheVars, vectVars, batchVars, simVars, slackVars,
                    textVars, commandVars, reactVars, limiterVars >>

SearchReply == \E ok \in BOOLEAN : SearchStoreReply(ok)

InitSearch ==
    /\ now = 0
    /\ IdleText
    /\ IdleCommand
    /\ IdleReact
    /\ IdleLimiter
    /\ IdleBreaker
    /\ IdleEmbed
    /\ searchCb = NewBreaker
    /\ search = NoSearch
    /\ IdleCatalog
    /\ IdleEmbCache
    /\ IdleVect
    /\ IdleBatch
    /\ IdleSim
    /\ IdleSlack

NextSearch == SearchCall \/ SearchReply \/ AsyncTick

SpecSearch == InitSearch /\ [][NextSearch]_vars

\* C4 as stated: after five consecutive calls of find_similar_emojis in
\* which the store's similarity query failed, a further call made within 60
\* seconds of the last failure fails fast with the breaker-open error and
\* the store is not queried.
C4_SearchFailsFastAfterFive ==
    (search.preFails >= SearchFailureThreshold /\ search.preWithin)
    => /\ ~search.queried
       /\ search.pc = "idle" => search.result = "breaker_open"

----------------------------------------------------------------------------
(* EmojiService.get_emoji_by_code and update_emoji over the store.  A task *)
(* is suspended at each store call: the store executes the statement at    *)
(* one moment and the task resumes at a later one.                         *)

\* In the sequential specification an operation starts only when no other
\* is running.
MayStart(t) ==
    /\ task[t].pc = "idle"
    /\ sequential => \A u \in Tasks : task[u].pc = "idle"

\* Mutant of CacheHit: the cache is consulted even when it is disabled.
CacheHit_IgnoresEnabled(cache, enabled, c) == cache[c] # None

\* if self.cache_enabled and code in self.emoji_cache
CacheHit(cache, enabled, c) == enabled /\ cache[c] # None

\* Mutant of Invalidate: update_emoji leaves the cache as it is.
Invalidate_Nothing(cache, enabled, c) == cache

\* if self.cache_enabled and emoji_data.code in self.emoji_cache:
\*     del self.emoji_cache[emoji_data.code]
Invalidate(cache, enabled, c) ==
    IF enabled /\ cache[c] # None THEN [cache EXCEPT ![c] = None] ELSE cache

\* if emoji and self.cache_enabled: self.emoji_cache[code] = emoji
CachePut(cache, enabled, c, emoji) ==
    IF emoji # None /\ enabled THEN [cache EXCEPT ![c] = emoji] ELSE cache

\* get_emoji_by_code(code) up to its first suspension: a cache hit returns
\* at once, a miss calls the store.
GetStart(t, i) ==
    /\ MayStart(t)
    /\ LET c == CodeOf(i)
       IN  IF CacheHit(emoji_cache, cache_enabled, c)
           THEN /\ task' = task
                /\ catHist' = [catHist EXCEPT
                      !.fresh[i] = FALSE,
                      !.lastGet = [id |-> i, result |-> emoji_cache[c],
                                   queried |-> FALSE, answered |-> FALSE,
                                   current |-> RowByCode(store, c),
                                   startAck |-> catHist.acked[i],
                                   afterUpdate |-> catHist.fresh[i],
                                   evicted |-> catHist.evicted[i],
                                   gone |-> catHist.gone[i],
                                   absent |-> RowByCode(store, c) = None,
                                   hit |-> emoji_cache[c],
                                   put |-> FALSE]]
           ELSE /\ task' = [task EXCEPT ![t] =
                      [NoTask EXCEPT !.pc = "get_await", !.id = i, !.code = c,
                                     !.startAck = catHist.acked[i],
                                     !.afterUpdate = catHist.fresh[i],
                                     !.evicted = catHist.evicted[i],
                                     !.gone = catHist.gone[i],
                                     !.absent = RowByCode(store, c) = None]]
                /\ catHist' = [catHist EXCEPT !.fresh[i] = FALSE]
    /\ UNCHANGED << cache_enabled, emoji_cache, store, sequential >>
    /\ UNCHANGED << now, breakerVars, embedVars, searchVars, embCacheVars, vectVars, batchVars, simVars, slackVars,
                    textVars, commandVars, reactVars, limiterVars >>

\* The store executes the SELECT of database_service.get_emoji_by_code, or
\* the call fails (DatabaseOperationError).
GetStoreExec(t, ok) ==
    /\ task[t].pc = "get_await"
    /\ task' = [task EXCEPT ![t] =
          [@ EXCEPT !.pc = "get_resume",
                    !.failed = ~ok,
                    !.current = RowByCode(store, task[t].code),
                    !.fetched = IF ok THEN RowByCode(store, task[t].code) ELSE None]]
    /\ UNCHANGED << cache_enabled, emoji_cache, store, catHist, sequential >>
    /\ UNCHANGED << now, breakerVars, embedVars, searchVars, embCacheVars, vectVars, batchVars, simVars, slackVars,
                    textVars, commandVars, reactVars, limiterVars >>

\* get_emoji_by_code resumes: a failure is logged and None returned; a row
\* found is cached and returned.
GetResume(t) ==
    /\ task[t].pc = "get_resume"
    /\ LET c == task[t].code
           emoji == IF task[t].failed THEN None ELSE task[t].fetched
       IN  /\ emoji_cache' = IF task[t].failed THEN emoji_cache
                             ELSE CachePut(emoji_cache, cache_enabled, c, emoji)
           /\ catHist' = [catHist EXCEPT
                 !.lastGet = [id |-> task[t].id, result |-> emoji,
                              queried |-> TRUE, answered |-> ~task[t].failed,
                              current |-> task[t].current,
                              startAck |-> task[t].startAck,
                              afterUpdate |-> task[t].afterUpdate,
                              evicted |-> task[t].evicted,
                              gone |-> task[t].gone,
                              absent |-> task[t].absent,
                              hit |-> None,
                              put |-> emoji_cache'[c] # None
                                      /\ emoji_cache'[c] = emoji]]
    /\ task' = [task EXCEPT ![t] = NoTask]
    /\ UNCHANGED << cache_enabled, store, sequential >>
    /\ UNCHANGED << now, breakerVars, embedVars, searchVars, embCacheVars, vectVars, batchVars, simVars, slackVars,
                    textVars, commandVars, reactVars, limiterVars >>

\* update_emoji(emoji_data) up to its suspension in database_service.update_emoji.
UpdStart(t, i) ==
    /\ MayStart(t)
    /\ catHist.started < MaxWrites
    /\ task' = [task EXCEPT ![t] =
          [NoTask EXCEPT !.pc = "upd_await", !.id = i, !.code = CodeOf(i)]]
    /\ catHist' = [catHist EXCEPT !.started = catHist.started + 1]
    /\ UNCHANGED << cache_enabled, emoji_cache, store, sequential >>
    /\ UNCHANGED << now, breakerVars, embedVars, searchVars, embCacheVars, vectVars, batchVars, simVars, slackVars,
                    textVars, commandVars, reactVars, limiterVars >>

\* The store executes UPDATE emojis SET ... WHERE id = %s RETURNING updated_at:
\* the row gets new content; no row, or a failed call, raises.
UpdStoreExec(t, ok) ==
    /\ task[t].pc = "upd_await"
    /\ LET i == task[t].id
           v == catHist.writes + 1
       IN  IF ok /\ store[i] # None
           THEN /\ store' = [store EXCEPT ![i] = [@ EXCEPT !.ver = v]]
                /\ catHist' = [catHist EXCEPT !.writes = v]
                /\ task' = [task EXCEPT ![t] = [@ EXCEPT !.pc = "upd_resume", !.ver = v]]
           ELSE /\ store' = store
                /\ catHist' = catHist
                /\ task' = [task EXCEPT ![t] = [@ EXCEPT !.pc = "upd_resume",
                                                         !.failed = TRUE]]
    /\ UNCHANGED << cache_enabled, emoji_cache, sequential >>
    /\ UNCHANGED << now, breakerVars, embedVars, searchVars, embCacheVars, vectVars, batchVars, simVars, slackVars,
                    textVars, commandVars, reactVars, limiterVars >>

\* update_emoji resumes: a failure propagates; otherwise the cache entry of
\* the code is deleted and the result returned.
UpdResume(t) ==
    /\ task[t].pc = "upd_resume"
    /\ LET i == task[t].id
           c == task[t].code
       IN  IF task[t].failed
           THEN /\ emoji_cache' = emoji_cache
                /\ catHist' = catHist
           ELSE /\ emoji_cache' = Invalidate(emoji_cache, cache_enabled, c)
                /\ catHist' = [catHist EXCEPT
                      !.acked[i] = Max(@, task[t].ver),
                      !.fresh[i] = TRUE,
                      !.evicted[i] = emoji_cache[c] # None]
    /\ task' = [task EXCEPT ![t] = NoTask]
    /\ UNCHANGED << cache_enabled, store, sequential >>
    /\ UNCHANGED << now, breakerVars, embedVars, searchVars, embCacheVars, vectVars, batchVars, simVars, slackVars,
                    textVars, commandVars, reactVars, limiterVars >>

\* delete_emoji(emoji_id) up to its suspension in database_service.delete_emoji.
DelStart(t, i) ==
    /\ MayStart(t)
    /\ catHist.deletes < MaxDeletes
    /\ task' = [task EXCEPT ![t] =
          [NoTask EXCEPT !.pc = "del_await", !.id = i, !.code = CodeOf(i)]]
    /\ catHist' = [catHist EXCEPT !.deletes = catHist.deletes + 1]
    /\ UNCHANGED << cache_enabled, emoji_cache, store, sequential >>
    /\ UNCHANGED << now, breakerVars, embedVars, searchVars, embCacheVars, vectVars, batchVars, simVars, slackVars,
                    textVars, commandVars, reactVars, limiterVars >>

\* The store executes DELETE FROM emojis WHERE id = %s: success is
\* cursor.rowcount > 0; a failed call raises DatabaseOperationError.
DelStoreExec(t, ok) ==
    /\ task[t].pc = "del_await"
    /\ LET i == task[t].id
       IN  IF ok
           THEN /\ store' = [store EXCEPT ![i] = None]
                /\ task' = [task EXCEPT ![t] = [@ EXCEPT !.pc = "del_resume",
                                                         !.success = store[i] # None]]
           ELSE /\ store' = store
                /\ task' = [task EXCEPT ![t] = [@ EXCEPT !.pc = "del_resume",
                                                         !.failed = TRUE]]
    /\ UNCHANGED << cache_enabled, emoji_cache, catHist, sequential >>
    /\ UNCHANGED << now, breakerVars, embedVars, searchVars, embCacheVars, vectVars, batchVars, simVars, slackVars,
                    textVars, commandVars, reactVars, limiterVars >>

\* delete_emoji resumes and returns what the store returned; emoji_cache is
\* not touched.
DelResume(t) ==
    /\ task[t].pc = "del_resume"
    /\ catHist' = IF task[t].success
                  THEN [catHist EXCEPT !.gone[task[t].id] = TRUE]
                  ELSE catHist
    /\ task' = [task EXCEPT ![t] = NoTask]
    /\ UNCHANGED << cache_enabled, emoji_cache, store, sequential >>
    /\ UNCHANGED << now, breakerVars, embedVars, searchVars, embCacheVars, vectVars, batchVars, simVars, slackVars,
                    textVars, commandVars, reactVars, limiterVars >>

Get == \E t \in Tasks, i \in Ids : GetStart(t, i)
GetExec == \E t \in Tasks, ok \in BOOLEAN : GetStoreExec(t, ok)
GetReturn == \E t \in Tasks : GetResume(t)
Update == \E t \in Tasks, i \in Ids : UpdStart(t, i)
UpdateExec == \E t \in Tasks, ok \in BOOLEAN : UpdStoreExec(t, ok)
UpdateReturn == \E t \in Tasks : UpdResume(t)
Delete == \E t \in Tasks, i \in Ids : DelStart(t, i)
DeleteExec == \E t \in Tasks, ok \in BOOLEAN : DelStoreExec(t, ok)
DeleteReturn == \E t \in Tasks : DelResume(t)

InitCatalogWith(seq) ==
    /\ now = 0
    /\ IdleText
    /\ IdleCommand
    /\ IdleReact
    /\ IdleLimiter
    /\ IdleBreaker
    /\ IdleEmbed
    /\ IdleSearch
    /\ cache_enabled \in BOOLEAN
    /\ emoji_cache = EmptyCache
    /\ store \in {[i \in Ids |-> IF i \in S THEN Row(i, 0) ELSE None] : S \in SUBSET Ids}
    /\ task = [t \in Tasks |-> NoTask]
    /\ catHist = NoCatHist
    /\ sequential = seq
    /\ IdleEmbCache
    /\ IdleVect
    /\ IdleBatch
    /\ IdleSim
    /\ IdleSlack

InitCatalogSeq == InitCatalogWith(TRUE)
InitCatalog == InitCatalogWith(FALSE)

NextCatalog ==
    \/ Get \/ GetExec \/ GetReturn
    \/ Update \/ UpdateExec \/ UpdateReturn
    \/ Delete \/ DeleteExec \/ DeleteReturn

SpecCatalogSeq == InitCatalogSeq /\ [][NextCatalog]_vars
SpecCatalog == InitCatalog /\ [][NextCatalog]_vars

\* C9 as stated: the first get_emoji_by_code(c) started after an
\* update_emoji of code c has returned queries the store and, when the store
\* answers, returns the record the store held when it was asked; in no case
\* does it return a record older than the update.
C9_NextGetAfterUpdateReadsStore ==
    LET g == catHist.lastGet
    IN  g.afterUpdate
        => /\ g.queried
           /\ g.answered => g.result = g.current
           /\ g.result # None => g.result.ver >= g.startAck

C9_Witness ==
    LET g == catHist.lastGet
    IN  /\ g.afterUpdate
        /\ g.evicted
        /\ g.queried
        /\ g.answered
        /\ g.result # None
        /\ g.result.ver >= 1
        /\ g.result = store[g.id]

\* C10 as stated: once an update_emoji of code c has returned, no
\* get_emoji_by_code(c) that starts afterwards returns the pre-update record,
\* under any interleaving of the tasks at their store calls.
C10_NoStaleReadAfterAck ==
    LET g == catHist.lastGet
    IN  g.result # None => g.result.ver >= g.startAck

----------------------------------------------------------------------------
(* OpenAIService.get_embedding over its cache: concurrent calls, each     *)
(* suspended while the embedding request runs.                             *)

\* enable_cache(max_size)
enable_cache(n) ==
    /\ ~emb_cache_enabled
    /\ emb_cache_enabled' = TRUE
    /\ cache_max_size' = n
    /\ emb_cache' = << >>
    /\ UNCHANGED << etask, ecHist >>
    /\ UNCHANGED << now, breakerVars, embedVars, searchVars, catalogVars, vectVars, batchVars, simVars, slackVars,
                    textVars, commandVars, reactVars, limiterVars >>

\* get_embedding(text) up to its first suspension: an empty text raises
\* ValueError, a cache hit moves the entry to the end and returns its
\* vector, a miss awaits the embedding request.
GetEmbeddingStart(t, text) ==
    /\ etask[t].pc = "idle"
    /\ ecHist.calls < MaxEmbCalls
    /\ LET key == preprocess_text(text)
           nf == NormalForm(text)
           cached == emb_cache_enabled /\ Has(emb_cache, nf)
           held == IF cached THEN emb_cache[IndexOf(emb_cache, nf)].vec ELSE "none"
           counted == [ecHist EXCEPT !.calls = ecHist.calls + 1]
       IN  IF Blank(text)
           THEN /\ ecHist' = [counted EXCEPT
                      !.last = [NoECall EXCEPT !.kind = "value_error"]]
                /\ UNCHANGED << emb_cache, etask >>
           ELSE IF emb_cache_enabled /\ Has(emb_cache, key)
                THEN /\ emb_cache' = move_to_end(emb_cache, key)
                     /\ LET vec == emb_cache'[IndexOf(emb_cache', key)].vec
                        IN  ecHist' = [counted EXCEPT
                              !.used = Append(SelectSeq(ecHist.used, LAMBDA k : k # key), key),
                              !.seen[key] = @ \cup {vec},
                              !.last = [kind |-> "hit", key |-> key,
                                        plain |-> text = nf,
                                        result |-> vec, provider |-> FALSE,
                                        cached |-> cached, held |-> held,
                                        seen |-> ecHist.seen[key],
                                        byPlain |-> ecHist.byPlain[key]]]
                     /\ UNCHANGED etask
                ELSE /\ etask' = [etask EXCEPT ![t] =
                           [pc |-> "await", key |-> key, plain |-> text = nf,
                            cached |-> cached, held |-> held]]
                     /\ ecHist' = counted
                     /\ UNCHANGED emb_cache
    /\ UNCHANGED << emb_cache_enabled, cache_max_size >>
    /\ UNCHANGED << now, breakerVars, embedVars, searchVars, catalogVars, vectVars, batchVars, simVars, slackVars,
                    textVars, commandVars, reactVars, limiterVars >>

\* The embedding request ends and get_embedding resumes: a failure
\* propagates; a vector is stored under the key, the oldest entry is dropped
\* when the cache has grown past its size, and the vector is returned.
GetEmbeddingResume(t, out) ==
    /\ etask[t].pc = "await"
    /\ LET key == etask[t].key
           call == [kind |-> IF out = "error" THEN "error" ELSE "miss",
                    key |-> key, plain |-> etask[t].plain,
                    result |-> out, provider |-> TRUE,
                    cached |-> etask[t].cached, held |-> etask[t].held,
                    seen |-> {}, byPlain |-> FALSE]
       IN  IF out = "error" \/ ~emb_cache_enabled
           THEN /\ ecHist' = [ecHist EXCEPT !.last = call]
                /\ UNCHANGED emb_cache
           ELSE LET stored == setitem(emb_cache, key, out)
                    usedNow == Append(SelectSeq(ecHist.used, LAMBDA k : k # key), key)
                IN  /\ emb_cache' = Evict(stored, cache_max_size)
                    /\ LET dropped == {k \in Keys : Has(stored, k) /\ ~Has(emb_cache', k)}
                           noted == [ecHist EXCEPT
                              !.seen[key] = IF Has(emb_cache, key) THEN @ \cup {out} ELSE {out},
                              !.byPlain[key] = IF Has(emb_cache, key) THEN @ ELSE etask[t].plain,
                              !.last = call]
                       IN  ecHist' =
                             IF dropped = {}
                             THEN [noted EXCEPT !.used = usedNow]
                             ELSE [noted EXCEPT
                                     !.used = SelectSeq(usedNow, LAMBDA k : k \notin dropped),
                                     !.evicted = CHOOSE k \in dropped : TRUE,
                                     !.lru = Head(usedNow),
                                     !.evictions = Min(ecHist.evictions + 1, MaxEmbCalls),
                                     !.seen = [k \in Keys |-> IF k \in dropped THEN {}
                                                             ELSE noted.seen[k]],
                                     !.byPlain = [k \in Keys |-> IF k \in dropped THEN FALSE
                                                                ELSE noted.byPlain[k]]]
    /\ etask' = [etask EXCEPT ![t] = NoETask]
    /\ UNCHANGED << emb_cache_enabled, cache_max_size >>
    /\ UNCHANGED << now, breakerVars, embedVars, searchVars, catalogVars, vectVars, batchVars, simVars, slackVars,
                    textVars, commandVars, reactVars, limiterVars >>

EnableCache == \E n \in 0..MaxCacheSize : enable_cache(n)
GetEmbedding == \E t \in Tasks, text \in Texts : GetEmbeddingStart(t, text)
GetEmbeddingReturn == \E t \in Tasks, out \in Vectors \cup {"error"} : GetEmbeddingResume(t, out)

InitEmbCache ==
    /\ now = 0
    /\ IdleText
    /\ IdleCommand
    /\ IdleReact
    /\ IdleLimiter
    /\ IdleBreaker
    /\ IdleEmbed
    /\ IdleSearch
    /\ IdleCatalog
    /\ IdleEmbCache
    /\ IdleVect
    /\ IdleBatch
    /\ IdleSim
    /\ IdleSlack

NextEmbCache == EnableCache \/ GetEmbedding \/ GetEmbeddingReturn

SpecEmbCache == InitEmbCache /\ [][NextEmbCache]_vars

(***************************************************************************)
(* EmojiService.vectorize_all_emojis                                       *)
(***************************************************************************)

\* SELECT ... FROM emojis ORDER BY id LIMIT limit OFFSET 0: the first limit
\* rows in the order of their ids.
get_all_emojis(vs, limit) ==
    [fill |-> Min(vs.fill, limit),
     rows |-> SubSeq(vs.rows, 1,
                     Min(Len(vs.rows), limit - Min(vs.fill, limit)))]

\* if category and emoji.category != category / the same for emotion_tone
FailsCategory(emoji, o) ==
    o.category # NoFilter /\ emoji.category # o.category

FailsTone(emoji, o) ==
    o.emotion_tone # NoFilter /\ emoji.emotion_tone # o.emotion_tone

\* One pass of the filter loop's body over a row: the skip_existing test
\* comes first, then the category test, then the emotion_tone test; a row
\* that fails a test leaves the pass there.
Classify(emoji, o) ==
    IF o.skip_existing /\ emoji.embedded THEN "skipped"
    ELSE IF FailsCategory(emoji, o) THEN "filtered_out"
    ELSE IF FailsTone(emoji, o) THEN "filtered_out"
    ELSE "kept"

\* The filter loop over all_emojis: the ids of filtered_emojis, and the
\* filtered_out counter.
FilterAll(all_emojis, o) ==
    [filtered_emojis |->
        IdsOf(all_emojis, {e \in RowKinds : Classify(e, o) = "kept"}),
     filtered_out |->
        CountOf(all_emojis,
                {e \in RowKinds : Classify(e, o) = "filtered_out"})]

\* if dry_run: return {...} before the embedding loop.
DryRunReturns_Never(dry_run) == FALSE

DryRunReturns(dry_run) == dry_run

\* The keys of embedding_updates after the loop: a row whose request raised
\* is logged and left out.
Embedded_All(survivors, failed) == survivors

Embedded(survivors, failed) == survivors \ failed

\* UPDATE emojis SET embedding = ... WHERE id = ..., for every id of the
\* batch, in one transaction.
ApplyUpdates_Nothing(vs, ids) == vs

ApplyUpdates(vs, ids) ==
    [vs EXCEPT !.rows =
        [j \in 1..Len(vs.rows) |->
            IF vs.rows[j].id \in ids
            THEN [vs.rows[j] EXCEPT !.embedded = TRUE]
            ELSE vs.rows[j]]]

\* What the finished run leaves for the next one to be compared with.
PrevOf(r) ==
    [clean |-> r.result = "summary" /\ r.failed = {},
     skip_existing |-> r.opts.skip_existing,
     category |-> r.opts.category,
     emotion_tone |-> r.opts.emotion_tone,
     processed |-> r.processed]

\* The call up to the end of the filter loop, and the dry-run return.
\* configured: self.openai_service is set; fetchOk: get_all_emojis returned.
VectorizeStart(o, configured, fetchOk) ==
    /\ vrun.pc = "idle"
    /\ vHist.runs < MaxRuns
    /\ vHist' = [runs |-> vHist.runs + 1, prev |-> PrevOf(vrun)]
    /\ LET seen == [NoRun EXCEPT
                      !.opts = o,
                      !.rows = Size(vstore),
                      !.embeddedRows = CountOf(vstore,
                          {e \in RowKinds : o.skip_existing /\ e.embedded}),
                      !.failingRows = CountOf(vstore,
                          {e \in RowKinds :
                              /\ ~(o.skip_existing /\ e.embedded)
                              /\ FailsCategory(e, o) \/ FailsTone(e, o)})]
       IN  IF ~configured
           THEN vrun' = [seen EXCEPT !.result = "raised"]
           ELSE IF ~fetchOk
           THEN vrun' = [seen EXCEPT !.result = "raised", !.storeFailed = TRUE]
           ELSE LET all_emojis == get_all_emojis(vstore, PageLimit)
                    f == FilterAll(all_emojis, o)
                    filtered_emojis == f.filtered_emojis
                    run == [seen EXCEPT
                              !.fetched = Size(all_emojis),
                              !.survivors = filtered_emojis,
                              !.filtered_out = f.filtered_out,
                              !.total = Cardinality(filtered_emojis),
                              !.skipped = Size(all_emojis)
                                          - Cardinality(filtered_emojis)
                                          - f.filtered_out]
                IN  IF DryRunReturns(o.dry_run)
                    THEN vrun' = [run EXCEPT !.result = "dry_summary"]
                    ELSE vrun' = [run EXCEPT !.pc = "embed"]
    /\ UNCHANGED vstore
    /\ UNCHANGED << now, breakerVars, embedVars, searchVars, catalogVars,
                    embCacheVars, batchVars, simVars, slackVars,
                    textVars, commandVars, reactVars, limiterVars >>

\* get_embedding: if not text or not text.strip(): raise ValueError, for
\* the surviving rows of vs whose description is nothing but whitespace.
Rejected(vs, survivors) ==
    {vs.rows[j].id :
        j \in {k \in DOMAIN vs.rows :
                  vs.rows[k].blank /\ vs.rows[k].id \in survivors}}

\* idx + 1 for a row of filtered_emojis: its place among the surviving rows.
PlaceOf(survivors, i) == Cardinality({j \in survivors : j <= i})

\* The progress_callback(idx + 1, total, emoji.code) calls of the loop for
\* the rows after the fill rows: one for each row whose request returned,
\* none for a row whose request raised (the except branch continues).
ProgressCalls(vs, survivors, failed, total) ==
    LET done == SelectSeq(vs.rows,
                          LAMBDA e : e.id \in survivors /\ e.id \notin failed)
    IN  [k \in 1..Len(done) |->
            [current |-> PlaceOf(survivors, done[k].id), total |-> total,
             row |-> done[k].id]]

\* The embedding loop: one get_embedding call for every surviving row; the
\* rows of failed raise, those of blank description among them; except
\* Exception logs each and continues.  Without updates (or in a dry run) the summary is
\* returned at once.
VectorizeLoop(failed) ==
    /\ vrun.pc = "embed"
    /\ failed \subseteq {i \in vrun.survivors : i > vstore.fill}
    /\ Rejected(vstore, vrun.survivors) \subseteq failed
    /\ LET embedding_updates == Embedded(vrun.survivors, failed)
           run == [vrun EXCEPT
                     !.failed = failed,
                     !.invalid = Rejected(vstore, vrun.survivors),
                     !.calls = Cardinality(vrun.survivors),
                     !.processed = Cardinality(embedding_updates),
                     !.updates = embedding_updates,
                     !.progress = ProgressCalls(vstore, vrun.survivors,
                                                failed, vrun.total),
                     !.progressFill = Cardinality(
                         {i \in vrun.survivors : i <= vstore.fill})]
       IN  IF embedding_updates # {} /\ ~vrun.opts.dry_run
           THEN vrun' = [run EXCEPT !.pc = "flush"]
           ELSE vrun' = [run EXCEPT !.pc = "idle", !.result = "summary"]
    /\ UNCHANGED << vstore, vHist >>
    /\ UNCHANGED << now, breakerVars, embedVars, searchVars, catalogVars,
                    embCacheVars, batchVars, simVars, slackVars,
                    textVars, commandVars, reactVars, limiterVars >>

\* await self._db_service.batch_update_embeddings(embedding_updates), then
\* the return of the summary; a failed update raises out of the call.
VectorizeFlush(ok) ==
    /\ vrun.pc = "flush"
    /\ IF ok
       THEN /\ vstore' = ApplyUpdates(vstore, vrun.updates)
            /\ vrun' = [vrun EXCEPT !.pc = "idle", !.result = "summary",
                                    !.writes = @ + 1, !.sent = vrun.updates]
       ELSE /\ vstore' = vstore
            /\ vrun' = [vrun EXCEPT !.pc = "idle", !.result = "raised",
                                    !.writes = @ + 1, !.sent = vrun.updates,
                                    !.storeFailed = TRUE]
    /\ UNCHANGED vHist
    /\ UNCHANGED << now, breakerVars, embedVars, searchVars, catalogVars,
                    embCacheVars, batchVars, simVars, slackVars,
                    textVars, commandVars, reactVars, limiterVars >>

Options == [skip_existing : BOOLEAN, category : {NoFilter, "a"},
            emotion_tone : {NoFilter, "positive"}, dry_run : BOOLEAN]

Vectorize ==
    \E o \in Options, configured \in BOOLEAN, fetchOk \in BOOLEAN :
        VectorizeStart(o, configured, fetchOk)

VectorizeEmbed ==
    \E failed \in SUBSET {i \in vrun.survivors : i > vstore.fill} :
        VectorizeLoop(failed)

VectorizeWrite == \E ok \in BOOLEAN : VectorizeFlush(ok)

InitVectorize ==
    /\ now = 0
    /\ IdleText
    /\ IdleCommand
    /\ IdleReact
    /\ IdleLimiter
    /\ IdleBreaker
    /\ IdleEmbed
    /\ IdleSearch
    /\ IdleCatalog
    /\ IdleEmbCache
    /\ IdleBatch
    /\ IdleSim
    /\ IdleSlack
    /\ vrun = NoRun
    /\ vHist = NoVHist
    /\ \E fill \in Fills, n \in 0..MaxRows :
          \E attrs \in [1..n -> [embedded : BOOLEAN, category : Categories,
                                 emotion_tone : Tones, blank : BOOLEAN]] :
              vstore = [fill |-> fill,
                        rows |-> [j \in 1..n |->
                                    [id |-> fill + j,
                                     embedded |-> attrs[j].embedded,
                                     category |-> attrs[j].category,
                                     emotion_tone |-> attrs[j].emotion_tone,
                                     blank |-> attrs[j].blank]]]

NextVectorize == Vectorize \/ VectorizeEmbed \/ VectorizeWrite

SpecVectorize == InitVectorize /\ [][NextVectorize]_vars

(***************************************************************************)
(* EmojiService.vectorize_emojis_batch                                     *)
(***************************************************************************)

\* The ids of a page, in the order of the rows.
IdSeq(page) ==
    [k \in 1..Size(page) |->
        IF k <= page.fill THEN k ELSE page.rows[k - page.fill].id]

\* batch = all_emojis[i : i + batch_size], as the set of its ids
BatchIds(r) ==
    {r.ids[k] : k \in (r.i + 1)..Min(r.i + r.batch_size, Len(r.ids))}

\* get_embeddings_batch raises when more than half of the texts failed;
\* below that it returns a zero vector in the place of each failed text.
BatchRaises(nfail, n) == 2 * nfail > n

\* failed += len(batch)
FailedAfter_One(failed, batch) == failed + 1

FailedAfter(failed, batch) == failed + Cardinality(batch)

\* if not continue_on_error: raise
Reraise_Never(continue_on_error) == FALSE

Reraise(continue_on_error) == ~continue_on_error

\* The next value of the loop variable, or the return of the summary.
NextChunk(r) ==
    IF r.i + r.batch_size >= Len(r.ids)
    THEN [r EXCEPT !.pc = "idle", !.result = "summary"]
    ELSE [r EXCEPT !.pc = "embed", !.i = r.i + r.batch_size]

\* The except branch of the loop body, for the chunk at hand.
ChunkFailed(r) ==
    LET f == [r EXCEPT !.failed = FailedAfter(r.failed, BatchIds(r))]
    IN  IF Reraise(r.continue_on_error)
        THEN [f EXCEPT !.pc = "idle", !.result = "raised"]
        ELSE NextChunk(f)

Late(r) == IF r.providerFailed \cup r.storeFailed # {} THEN 1 ELSE 0

\* The call up to the first chunk.  range(0, n, 0) raises ValueError; a
\* negative step gives no chunk.
BatchStart(batch_size, continue_on_error, configured, fetchOk) ==
    /\ brun.pc = "idle"
    /\ brun.result = "none"
    /\ LET r == [brun EXCEPT !.batch_size = batch_size,
                             !.continue_on_error = continue_on_error]
       IN  IF ~configured \/ ~fetchOk
           THEN brun' = [r EXCEPT !.result = "raised"]
           ELSE LET all_emojis == get_all_emojis(vstore, PageLimit)
                    f == [r EXCEPT !.ids = IdSeq(all_emojis)]
                IN  IF batch_size = 0
                    THEN brun' = [f EXCEPT !.result = "raised"]
                    ELSE IF Size(all_emojis) = 0 \/ batch_size < 0
                    THEN brun' = [f EXCEPT !.result = "summary"]
                    ELSE brun' = [f EXCEPT !.pc = "embed"]
    /\ UNCHANGED << now, breakerVars, embedVars, searchVars, catalogVars,
                    embCacheVars, vectVars, simVars, slackVars,
                    textVars, commandVars, reactVars, limiterVars >>

\* embeddings = await get_embeddings_batch(descriptions), with nfail texts
\* that fail (the rows of zeros, when the call returns), and the loop that
\* fills embedding_updates.
BatchEmbed(nfail) ==
    /\ brun.pc = "embed"
    /\ nfail \in 0..Cardinality(BatchIds(brun))
    /\ LET batch == BatchIds(brun)
           r == [brun EXCEPT !.lateCalls = @ + Late(brun)]
       IN  IF BatchRaises(nfail, Cardinality(batch))
           THEN brun' = ChunkFailed(
                            [r EXCEPT !.providerFailed = @ \cup batch])
           ELSE \E zeros \in SUBSET batch :
                    /\ Cardinality(zeros) = nfail
                    /\ brun' = [r EXCEPT
                           !.pc = "flush",
                           !.embedding_updates = @ \cup batch,
                           !.successful = @ + Cardinality(batch),
                           !.placeholders = @ + nfail,
                           !.zeroed = @ \cup zeros,
                           !.peak = Max(@, Cardinality(
                                        r.embedding_updates \cup batch))]
    /\ UNCHANGED << now, breakerVars, embedVars, searchVars, catalogVars,
                    embCacheVars, vectVars, simVars, slackVars,
                    textVars, commandVars, reactVars, limiterVars >>

\* await batch_update_embeddings(embedding_updates); embedding_updates.clear()
BatchFlush(ok) ==
    /\ brun.pc = "flush"
    /\ LET r == [brun EXCEPT !.lateCalls = @ + Late(brun)]
       IN  IF ok
           THEN /\ vstore' = ApplyUpdates(vstore, brun.embedding_updates)
                /\ brun' = NextChunk(
                       [r EXCEPT !.persisted = @ \cup brun.embedding_updates,
                                 !.embedding_updates = {}])
           ELSE /\ vstore' = vstore
                /\ brun' = ChunkFailed(
                       [r EXCEPT !.storeFailed = @ \cup BatchIds(brun)])
    /\ UNCHANGED << vrun, vHist >>
    /\ UNCHANGED << now, breakerVars, embedVars, searchVars, catalogVars,
                    embCacheVars, simVars, slackVars,
                    textVars, commandVars, reactVars, limiterVars >>

VectorizeBatch ==
    \E batch_size \in 0..MaxBatchSize, continue_on_error \in BOOLEAN,
       configured \in BOOLEAN, fetchOk \in BOOLEAN :
        BatchStart(batch_size, continue_on_error, configured, fetchOk)

BatchEmbedding == \E nfail \in 0..MaxBatchSize : BatchEmbed(nfail)

BatchUpdate == \E ok \in BOOLEAN : BatchFlush(ok)

\* A table of 0..MaxBatchRows rows, none of them embedded yet.
InitBatch ==
    /\ now = 0
    /\ IdleText
    /\ IdleCommand
    /\ IdleReact
    /\ IdleLimiter
    /\ IdleBreaker
    /\ IdleEmbed
    /\ IdleSearch
    /\ IdleCatalog
    /\ IdleEmbCache
    /\ IdleBatch
    /\ IdleSim
    /\ IdleSlack
    /\ vrun = NoRun
    /\ vHist = NoVHist
    /\ \E n \in 0..MaxBatchRows :
          vstore = [fill |-> 0,
                    rows |-> [j \in 1..n |->
                                [id |-> j, embedded |-> FALSE,
                                 category |-> "a",
                                 emotion_tone |-> "positive"]]]

NextBatch == VectorizeBatch \/ BatchEmbedding \/ BatchUpdate

SpecBatch == InitBatch /\ [][NextBatch]_vars

(***************************************************************************)
(* DatabaseService.find_similar_emojis                                     *)
(***************************************************************************)

\* if len(query_vector) != 1536: raise
ValidDimension_AtLeast(n) == n >= VectorDim

ValidDimension(n) == n = VectorDim

\* CASE WHEN d IS NULL THEN 0.0 WHEN d = 'NaN' THEN 0.0
\*      ELSE GREATEST(0.0, LEAST(1.0, 1 - d)) END, in tenths
similarity_score_Unclamped(d) ==
    IF d = Null THEN 0
    ELSE IF d = NaN THEN 0
    ELSE 10 - d

similarity_score(d) ==
    IF d = Null THEN 0
    ELSE IF d = NaN THEN 0
    ELSE Max(0, Min(10, 10 - d))

\* WHERE embedding IS NOT NULL
HasEmbedding(row) == row.distance # Null

\* AND key = value for every key of filters among emotion_tone, category
\* and usage_scene; the other keys add no condition.
FilterHolds_Either(row, f) ==
    \/ f.emotion_tone # NoFilter /\ row.emotion_tone = f.emotion_tone
    \/ f.category # NoFilter /\ row.category = f.category
    \/ f.usage_scene # NoFilter /\ row.usage_scene = f.usage_scene
    \/ f.emotion_tone = NoFilter /\ f.category = NoFilter
           /\ f.usage_scene = NoFilter

FilterHolds(row, f) ==
    /\ f.emotion_tone # NoFilter => row.emotion_tone = f.emotion_tone
    /\ f.category # NoFilter => row.category = f.category
    /\ f.usage_scene # NoFilter => row.usage_scene = f.usage_scene

Where(row, f) == HasEmbedding(row) /\ FilterHolds(row, f)

\* ORDER BY similarity_score DESC: a places before b
Before_Asc(a, b) == a <= b

Before(a, b) == a >= b

\* LIMIT limit
Limited_All(n, limit) == n

Limited(n, limit) == Min(n, limit)

\* The lists of distinct ids of the table.
Arrangements(table) ==
    {s \in UNION {[1..n -> DOMAIN table] : n \in 0..Len(table)} :
        \A a, b \in DOMAIN s : a # b => s[a] # s[b]}

\* What the query may answer: the rows of the WHERE clause in the order of
\* ORDER BY (rows of equal score in any order), cut by LIMIT.
Answers(table, f, limit) ==
    LET matching == {j \in DOMAIN table : Where(table[j], f)}
        score(j) == similarity_score(table[j].distance)
    IN  {s \in Arrangements(table) :
            /\ \A k \in DOMAIN s : s[k] \in matching
            /\ Len(s) = Limited(Cardinality(matching), limit)
            /\ \A k \in 1..(Len(s) - 1) : Before(score(s[k]), score(s[k + 1]))
            /\ \A k \in DOMAIN s :
                  \A j \in matching \ {s[i] : i \in DOMAIN s} :
                      Before(score(s[k]), score(j))}

\* The call up to the query: the dimension check.
SimStart(dim, limit, f) ==
    /\ sim.pc = "idle"
    /\ sim.result = "none"
    /\ LET s == [sim EXCEPT !.dim = dim, !.limit = limit, !.filters = f]
       IN  IF ~ValidDimension(dim)
           THEN sim' = [s EXCEPT !.result = "dimension_error"]
           ELSE sim' = [s EXCEPT !.pc = "execute"]
    /\ UNCHANGED << now, breakerVars, embedVars, searchVars, catalogVars,
                    embCacheVars, vectVars, batchVars, slackVars,
                    textVars, commandVars, reactVars, limiterVars >>

\* await cursor.execute(query, params); fetchall; the loop that builds the
\* list.  ok: the connection and the query succeed.
SimExecute(ok, answer) ==
    /\ sim.pc = "execute"
    /\ IF ok
       THEN /\ answer \in Answers(sim.table, sim.filters, sim.limit)
            /\ sim' = [sim EXCEPT
                         !.pc = "idle", !.result = "ok", !.executed = @ + 1,
                         !.results =
                             [k \in DOMAIN answer |->
                                 [id |-> answer[k],
                                  row |-> sim.table[answer[k]],
                                  similarity_score |-> similarity_score(
                                      sim.table[answer[k]].distance)]]]
       ELSE /\ answer = << >>
            /\ sim' = [sim EXCEPT !.pc = "idle", !.result = "store_error"]
    /\ UNCHANGED << now, breakerVars, embedVars, searchVars, catalogVars,
                    embCacheVars, vectVars, batchVars, slackVars,
                    textVars, commandVars, reactVars, limiterVars >>

FindSimilar ==
    \E dim \in Dims, limit \in 0..MaxLimit, f \in FilterMaps :
        SimStart(dim, limit, f)

FindSimilarExecute ==
    \E ok \in BOOLEAN, answer \in Arrangements(sim.table) :
        SimExecute(ok, answer)

InitSim ==
    /\ now = 0
    /\ IdleText
    /\ IdleCommand
    /\ IdleReact
    /\ IdleLimiter
    /\ IdleBreaker
    /\ IdleEmbed
    /\ IdleSearch
    /\ IdleCatalog
    /\ IdleEmbCache
    /\ IdleVect
    /\ IdleBatch
    /\ IdleSlack
    /\ \E n \in 0..MaxSimRows :
          \E table \in [1..n -> SimRows] : sim = [NoSim EXCEPT !.table = table]

NextSim == FindSimilar \/ FindSimilarExecute

SpecSim == InitSim /\ [][NextSim]_vars

(***************************************************************************)
(* SlackHandler.handle_message                                             *)
(***************************************************************************)

\* filtered: _should_process_message is false; bad_text: "text" is present
\* but is not a string; missing_key: no "channel" or no "ts"; empty_text /
\* empty_channel: an empty text, an empty channel or ts; normal: a message
\* to react to.
MessageKinds == {"filtered", "bad_text", "missing_key", "empty_text",
                 "empty_channel", "normal"}

\* The exceptions (subclasses of Exception) of a step: message: raised in
\* handle_message while it reads the message; embedding, search, posting:
\* raised inside the try of _process_message_with_reactions.
Steps == {"message", "embedding", "search", "posting"}

\* except Exception of _process_message_with_reactions: returns
\* {"status": "error"} (no fallback emojis are given by handle_message).
CaughtInProcess(e) == e \in {"embedding", "search", "posting"}

\* except Exception of handle_message: logs and returns.
CaughtInHandle(e) == e \in Steps

handle_message_raises_Search(e) == e = "search"

handle_message_raises(e) == ~CaughtInProcess(e) /\ ~CaughtInHandle(e)

\* The end of the handling of the message at hand.
Ended(status, posted) ==
    [slack EXCEPT !.pc = "idle", !.status = status, !.posted = posted,
                  !.handled = @ + 1]

\* The end of the handling by an exception of step e.
Failed(e) ==
    LET s == [Ended(IF CaughtInProcess(e) THEN "error" ELSE "caught", 0)
                 EXCEPT !.failures = @ \cup {e}]
    IN  IF handle_message_raises(e)
        THEN [s EXCEPT !.raised = TRUE, !.status = "raised"]
        ELSE s

\* handle_message up to the first await.
SlackStart(kind) ==
    /\ slack.pc = "idle"
    /\ slack.handled < MaxMessages
    /\ LET s == [slack EXCEPT !.kind = kind, !.found = 0, !.posted = 0,
                              !.status = "none"]
       IN  slack' =
             IF kind = "filtered"
             THEN [s EXCEPT !.status = "filtered", !.handled = @ + 1]
             ELSE IF kind \in {"bad_text", "missing_key"}
             THEN [Failed("message") EXCEPT !.kind = kind, !.found = 0]
             ELSE IF kind \in {"empty_text", "empty_channel"}
             THEN [s EXCEPT !.status = "skipped", !.handled = @ + 1]
             ELSE [s EXCEPT !.pc = "embedding"]
    /\ UNCHANGED << now, breakerVars, embedVars, searchVars, catalogVars,
                    embCacheVars, vectVars, batchVars, simVars,
                    textVars, commandVars, reactVars, limiterVars >>

\* embedding = await self.openai_service.get_embedding(text)
SlackEmbedded(ok) ==
    /\ slack.pc = "embedding"
    /\ slack' = IF ok THEN [slack EXCEPT !.pc = "searching"]
                ELSE Failed("embedding")
    /\ UNCHANGED << now, breakerVars, embedVars, searchVars, catalogVars,
                    embCacheVars, vectVars, batchVars, simVars,
                    textVars, commandVars, reactVars, limiterVars >>

\* similar_emojis = await self.emoji_service.find_similar_emojis(...), which
\* raises EmojiServiceError when the search fails; n: the emoji names left
\* after _sanitize_emoji_name.
SlackSearched(ok, n) ==
    /\ slack.pc = "searching"
    /\ slack' = IF ~ok THEN Failed("search")
                ELSE IF n = 0 THEN Ended("no_emojis", 0)
                ELSE [slack EXCEPT !.pc = "posting", !.found = n]
    /\ UNCHANGED << now, breakerVars, embedVars, searchVars, catalogVars,
                    embCacheVars, vectVars, batchVars, simVars,
                    textVars, commandVars, reactVars, limiterVars >>

\* The rate-limit check and add_reactions: add_reactions gathers the
\* reaction tasks with return_exceptions=True, so k of the reactions are
\* added and the others only counted as failed; raises: an exception from
\* the rate-limit check or from add_reactions itself.
SlackPosted(raises, k) ==
    /\ slack.pc = "posting"
    /\ k \in 0..slack.found
    /\ slack' = IF raises THEN Failed("posting")
                ELSE [Ended("success", k) EXCEPT
                        !.failures = IF k < slack.found
                                     THEN @ \cup {"reaction"} ELSE @]
    /\ UNCHANGED << now, breakerVars, embedVars, searchVars, catalogVars,
                    embCacheVars, vectVars, batchVars, simVars,
                    textVars, commandVars, reactVars, limiterVars >>

SlackReceive == \E kind \in MessageKinds : SlackStart(kind)

SlackEmbed == \E ok \in BOOLEAN : SlackEmbedded(ok)

SlackSearch == \E ok \in BOOLEAN, n \in 0..MaxEmojis : SlackSearched(ok, n)

SlackPost == \E raises \in BOOLEAN, k \in 0..MaxEmojis : SlackPosted(raises, k)

InitSlack ==
    /\ now = 0
    /\ IdleText
    /\ IdleCommand
    /\ IdleReact
    /\ IdleLimiter
    /\ IdleBreaker
    /\ IdleEmbed
    /\ IdleSearch
    /\ IdleCatalog
    /\ IdleEmbCache
    /\ IdleVect
    /\ IdleBatch
    /\ IdleSim
    /\ IdleSlack

NextSlack == SlackReceive \/ SlackEmbed \/ SlackSearch \/ SlackPost

SpecSlack == InitSlack /\ [][NextSlack]_vars

(***************************************************************************)
(* EmojiService.find_similar_emojis_by_text and EmojiService.search_by_text *)
(***************************************************************************)

\* dummy_vector = [0.1] * 1536
DummyVector == "dummy"

TextMethods == {"find_similar_emojis_by_text", "search_by_text"}

\* The call up to its first await.  find_similar_emojis_by_text hands the
\* dummy vector to find_similar_emojis; search_by_text checks the text and
\* the provider and awaits get_embedding(text).
TextSearchStart(method, text, configured) ==
    /\ tsearch.pc = "idle"
    /\ tsearch.finished < MaxTextCalls
    /\ LET s == [tsearch EXCEPT !.method = method, !.text = text,
                                !.produced = "none", !.queried = "none",
                                !.result = "none"]
       IN  IF method = "find_similar_emojis_by_text"
           THEN tsearch' = [s EXCEPT !.pc = "query", !.queried = DummyVector]
           ELSE IF Blank(text)
           THEN tsearch' = [s EXCEPT !.result = "ValueError",
                                     !.finished = @ + 1]
           ELSE IF ~configured
           THEN tsearch' = [s EXCEPT !.result = "RuntimeError",
                                     !.finished = @ + 1]
           ELSE tsearch' = [s EXCEPT !.pc = "embed"]
    /\ UNCHANGED << now, breakerVars, embedVars, searchVars, catalogVars,
                    embCacheVars, vectVars, batchVars, simVars, slackVars,
                    commandVars, reactVars, limiterVars >>

\* embedding = await self.openai_service.get_embedding(text);
\* query_vector = embedding.tolist().  ok: the provider or the cache gave
\* the vector v for the text; else the exception is logged and raised.
TextEmbedded(ok, v) ==
    /\ tsearch.pc = "embed"
    /\ IF ok
       THEN tsearch' = [tsearch EXCEPT !.pc = "query", !.produced = v,
                                       !.queried = v, !.embedCalls = @ + 1]
       ELSE tsearch' = [tsearch EXCEPT !.pc = "idle", !.result = "raised",
                                       !.embedCalls = @ + 1,
                                       !.finished = @ + 1]
    /\ UNCHANGED << now, breakerVars, embedVars, searchVars, catalogVars,
                    embCacheVars, vectVars, batchVars, simVars, slackVars,
                    commandVars, reactVars, limiterVars >>

\* The store is queried with query_vector.
TextQueried(ok) ==
    /\ tsearch.pc = "query"
    /\ tsearch' = [tsearch EXCEPT !.pc = "idle", !.queries = @ + 1,
                                  !.finished = @ + 1,
                                  !.result = IF ok THEN "ok" ELSE "raised"]
    /\ UNCHANGED << now, breakerVars, embedVars, searchVars, catalogVars,
                    embCacheVars, vectVars, batchVars, simVars, slackVars,
                    commandVars, reactVars, limiterVars >>

TextSearch ==
    \E method \in TextMethods, text \in Texts, configured \in BOOLEAN :
        TextSearchStart(method, text, configured)

TextEmbedding == \E ok \in BOOLEAN, v \in Vectors : TextEmbedded(ok, v)

TextQuery == \E ok \in BOOLEAN : TextQueried(ok)

InitText ==
    /\ now = 0
    /\ IdleBreaker
    /\ IdleEmbed
    /\ IdleSearch
    /\ IdleCatalog
    /\ IdleEmbCache
    /\ IdleVect
    /\ IdleBatch
    /\ IdleSim
    /\ IdleSlack
    /\ IdleText
    /\ IdleCommand
    /\ IdleReact
    /\ IdleLimiter

NextText == TextSearch \/ TextEmbedding \/ TextQuery

SpecText == InitText /\ [][NextText]_vars

(***************************************************************************)
(* Permission, PermissionManager.check_permission and SlashCommandHandler  *)
(***************************************************************************)

\* order = [Permission.VIEWER, Permission.EDITOR, Permission.ADMIN]
order == << "viewer", "editor", "admin" >>

\* order.index(p)
index(p) == CHOOSE i \in DOMAIN order : order[i] = p

\* Permission.__gt__
gt(self, other) == index(self) > index(other)

\* Permission.__ge__: self == other or self > other
ge_Strict(self, other) == gt(self, other)

ge(self, other) == self = other \/ gt(self, other)

\* AdminUser.has_permission
has_permission(permission, required) == ge(permission, required)

\* DatabaseService.get_admin_user: the row of the user, or None when there
\* is none; an exception while it is read is logged and None is returned.
get_admin_user(table, user, readOk) ==
    IF readOk THEN table[user] ELSE NoRow

\* PermissionManager.check_permission, given what get_admin_user returned.
check_permission(row, required) ==
    IF row = NoRow
    THEN ge("viewer", required)
    ELSE has_permission(row, required)

Subcommands == {"help", "list", "add", "search", "delete", "vectorize",
                "stats", "update"}

\* The level handle_emoji_command asks check_permission for.
RequiredPermission_Viewer(subcommand) ==
    IF subcommand \in {"list", "add", "delete", "vectorize"}
    THEN "viewer" ELSE "none"

RequiredPermission(subcommand) ==
    CASE subcommand = "list" -> "viewer"
      [] subcommand = "add" -> "editor"
      [] subcommand = "delete" -> "editor"
      [] subcommand = "vectorize" -> "admin"
      [] OTHER -> "none"

\* The branch of a subcommand after its permission check: the calls made
\* on the emoji service and the modal, and the response.  hasArgs: args is
\* not empty; hasTrigger: the payload has a trigger_id; serviceOk: the
\* calls return.  EmojiService has no search_emojis and no
\* delete_emoji_by_code: the attribute lookup raises before any call.
Perform(subcommand, hasArgs, hasTrigger, serviceOk) ==
    LET out(calls, kind) ==
            [calls |-> calls, response |-> [kind |-> kind, required |-> "none"]]
        ended(calls) == out(calls, IF serviceOk THEN "done" ELSE "error")
    IN  CASE subcommand = "help" -> out({}, "help")
          [] subcommand = "list" -> ended({"get_all_emojis"})
          [] subcommand = "add" ->
                IF hasTrigger THEN ended({"open_modal"}) ELSE out({}, "error")
          [] subcommand = "search" ->
                IF hasArgs THEN out({}, "error") ELSE out({}, "usage")
          [] subcommand = "delete" ->
                IF hasArgs THEN out({}, "error") ELSE out({}, "usage")
          [] subcommand = "vectorize" ->
                IF ~serviceOk THEN out({"count_emojis"}, "error")
                ELSE IF hasTrigger THEN out({"count_emojis", "open_modal"}, "done")
                ELSE out({"count_emojis"}, "error")
          [] subcommand = "stats" -> ended({"get_emoji_stats"})
          [] OTHER -> out({}, "unknown")

\* handle_emoji_command(payload)
HandleEmojiCommand(user, subcommand, hasArgs, hasTrigger, readOk, serviceOk) ==
    /\ cmd.handled < MaxCommands
    /\ LET required == RequiredPermission(subcommand)
           row == get_admin_user(perms, user, readOk)
           result == check_permission(row, required)
           c == [cmd EXCEPT !.user = user, !.subcommand = subcommand,
                            !.handled = @ + 1]
       IN  IF required = "none"
           THEN LET p == Perform(subcommand, hasArgs, hasTrigger, serviceOk)
                IN  cmd' = [c EXCEPT !.check = NoCheck, !.calls = p.calls,
                                     !.response = p.response]
           ELSE LET check == [made |-> TRUE, user |-> user,
                              required |-> required, readOk |-> readOk,
                              row |-> row, result |-> result]
                    p == Perform(subcommand, hasArgs, hasTrigger, serviceOk)
                IN  IF ~result
                    THEN cmd' = [c EXCEPT
                                   !.check = check, !.calls = {},
                                   !.response = [kind |-> "permission_denied",
                                                 required |-> required]]
                    ELSE cmd' = [c EXCEPT
                                   !.check = check, !.calls = p.calls,
                                   !.response = p.response,
                                   !.admitted =
                                       IF required = "admin"
                                       THEN @ \cup {user} ELSE @]
    /\ UNCHANGED perms
    /\ UNCHANGED << now, breakerVars, embedVars, searchVars, catalogVars,
                    embCacheVars, vectVars, batchVars, simVars, slackVars,
                    textVars, reactVars, limiterVars >>

ActionIds == {"vectorize_confirm", "vectorize_cancel"}

\* handle_action(payload): on vectorize_confirm the message is sent and,
\* with a response_url, the vectorization task is created.  sendOk:
\* send_ephemeral_message returns.
HandleAction(user, action_id, hasResponseUrl, sendOk) ==
    /\ cmd.handled < MaxCommands
    /\ cmd' = [cmd EXCEPT
                 !.handled = @ + 1,
                 !.pending =
                     IF action_id = "vectorize_confirm" /\ sendOk
                        /\ hasResponseUrl
                     THEN @ \cup {user} ELSE @]
    /\ UNCHANGED perms
    /\ UNCHANGED << now, breakerVars, embedVars, searchVars, catalogVars,
                    embCacheVars, vectVars, batchVars, simVars, slackVars,
                    textVars, reactVars, limiterVars >>

\* _run_vectorization_task(user_id, response_url, options) up to the call
\* of vectorize_all_emojis.  postOk: the opening message is posted; else
\* the except branch reports the error and the run is not started.
RunVectorizationTask(user, postOk) ==
    /\ user \in cmd.pending
    /\ cmd' = [cmd EXCEPT
                 !.pending = @ \ {user},
                 !.started = IF postOk THEN @ \cup {user} ELSE @]
    /\ UNCHANGED perms
    /\ UNCHANGED << now, breakerVars, embedVars, searchVars, catalogVars,
                    embCacheVars, vectVars, batchVars, simVars, slackVars,
                    textVars, reactVars, limiterVars >>

EmojiCommand ==
    \E user \in Users, subcommand \in Subcommands, hasArgs \in BOOLEAN,
       hasTrigger \in BOOLEAN, readOk \in BOOLEAN, serviceOk \in BOOLEAN :
        HandleEmojiCommand(user, subcommand, hasArgs, hasTrigger, readOk,
                           serviceOk)

ButtonAction ==
    \E user \in Users, action_id \in ActionIds, hasResponseUrl \in BOOLEAN,
       sendOk \in BOOLEAN :
        HandleAction(user, action_id, hasResponseUrl, sendOk)

VectorizationTask ==
    \E user \in Users, postOk \in BOOLEAN : RunVectorizationTask(user, postOk)

InitCommand ==
    /\ now = 0
    /\ IdleBreaker
    /\ IdleEmbed
    /\ IdleSearch
    /\ IdleCatalog
    /\ IdleEmbCache
    /\ IdleVect
    /\ IdleBatch
    /\ IdleSim
    /\ IdleSlack
    /\ IdleText
    /\ IdleReact
    /\ IdleLimiter
    /\ perms \in [Users -> Permissions \cup {NoRow}]
    /\ cmd = NoCmd

NextCommand == EmojiCommand \/ ButtonAction \/ VectorizationTask

SpecCommand == InitCommand /\ [][NextCommand]_vars

(***************************************************************************)
(* SlackHandler.add_reactions and _add_single_reaction_with_retry          *)
(***************************************************************************)

DEFAULT_MAX_RETRIES == 2

\* What one reactions_add call does: it returns, raises SlackApiError (with
\* the error already_reacted or another one), or raises another exception
\* whose text holds already_reacted, a retryable error, or neither.
ReactOutcomes == {"ok", "slack_already_reacted", "slack_error",
                  "already_reacted", "retryable", "fatal"}

\* except SlackApiError as e: last_error = e; error_msg = ...
IsSlackApiError(o) == o \in {"slack_already_reacted", "slack_error"}

\* self._is_retryable_error(error_msg), for an exception that is not a
\* SlackApiError
IsRetryable(o) == o = "retryable"

\* One pass of the loop body of task j, whose reactions_add call does o,
\* up to the next call or the end of the task.  A SlackApiError is only
\* noted: the loop goes on with the next attempt, and after the last
\* attempt the function returns.  The other exceptions return on
\* already_reacted, sleep and go on when retryable before the last attempt,
\* and raise otherwise.
AfterAttempt(attempt, o) ==
    IF o = "ok" THEN "returned"
    ELSE IF IsSlackApiError(o)
    THEN IF attempt < DEFAULT_MAX_RETRIES THEN "running" ELSE "returned"
    ELSE IF o = "already_reacted" THEN "returned"
    ELSE IF IsRetryable(o) /\ attempt < DEFAULT_MAX_RETRIES THEN "running"
    ELSE "raised"

\* add_reactions(channel, timestamp, emojis) up to the gather: n valid
\* emoji names, one task for each.
AddReactionsStart(n) ==
    /\ react.pc = "idle"
    /\ react.finished < MaxReactCalls
    /\ react' = [react EXCEPT
                   !.pc = "gather", !.n = n,
                   !.attempt = [j \in 1..n |-> 0],
                   !.log = [j \in 1..n |-> << >>],
                   !.end = [j \in 1..n |-> "running"],
                   !.total_reactions = @ + n]
    /\ UNCHANGED << now, breakerVars, embedVars, searchVars, catalogVars,
                    embCacheVars, vectVars, batchVars, simVars, slackVars,
                    textVars, commandVars, limiterVars >>

ReactAttempt(j, o) ==
    /\ react.pc = "gather"
    /\ j \in 1..react.n
    /\ react.end[j] = "running"
    /\ LET attempt == react.attempt[j]
           end == AfterAttempt(attempt, o)
       IN  react' = [react EXCEPT
                       !.log[j] = Append(@, o),
                       !.end[j] = end,
                       !.attempt[j] = IF end = "running" THEN @ + 1 ELSE @,
                       !.retries_performed =
                           IF o = "ok" /\ attempt > 0 THEN @ + attempt ELSE @]
    /\ UNCHANGED << now, breakerVars, embedVars, searchVars, catalogVars,
                    embCacheVars, vectVars, batchVars, simVars, slackVars,
                    textVars, commandVars, limiterVars >>

\* results = await asyncio.gather(*tasks, return_exceptions=True) and the
\* counting of the results.
AddReactionsFinish ==
    /\ react.pc = "gather"
    /\ \A j \in 1..react.n : react.end[j] # "running"
    /\ LET successful_count ==
               Cardinality({j \in 1..react.n : react.end[j] # "raised"})
           failed_count == react.n - successful_count
       IN  react' = [react EXCEPT
                       !.pc = "idle", !.finished = @ + 1,
                       !.successful_reactions = @ + successful_count,
                       !.failed_reactions = @ + failed_count]
    /\ UNCHANGED << now, breakerVars, embedVars, searchVars, catalogVars,
                    embCacheVars, vectVars, batchVars, simVars, slackVars,
                    textVars, commandVars, limiterVars >>

AddReactions == \E n \in 1..MaxReactions : AddReactionsStart(n)

ReactionsAdd ==
    \E j \in 1..MaxReactions, o \in ReactOutcomes : ReactAttempt(j, o)

InitReact ==
    /\ now = 0
    /\ IdleBreaker
    /\ IdleEmbed
    /\ IdleSearch
    /\ IdleCatalog
    /\ IdleEmbCache
    /\ IdleVect
    /\ IdleBatch
    /\ IdleSim
    /\ IdleSlack
    /\ IdleText
    /\ IdleCommand
    /\ IdleLimiter
    /\ react = NoReact

NextReact == AddReactions \/ ReactionsAdd \/ AddReactionsFinish

SpecReact == InitReact /\ [][NextReact]_vars

(***************************************************************************)
(* SlackHandler.set_rate_limit and SlackHandler._check_rate_limit          *)
(***************************************************************************)

\* The window of 60 seconds and the 0.1 second added to the wait, in tenths
\* of a second.
RateWindow == 600
WaitMargin == 1

\* [ts for ts in self.rate_limit_window if now - ts < 60]
Recent(window, t) == SelectSeq(window, LAMBDA ts : t - ts < RateWindow)

\* len(self.rate_limit_window) >= self.rate_limit_max
AtLimit(window, max) == Len(window) >= max

\* _check_rate_limit up to its await or its return: the window is cleaned;
\* at the limit the task sleeps until the oldest timestamp has expired,
\* else the timestamp is appended.
CheckRateLimit(t) ==
    /\ limiter.task[t].pc = "idle"
    /\ limiter.started < MaxPasses
    /\ LET time == limiter.clock
           window == Recent(limiter.rate_limit_window, time)
           l == [limiter EXCEPT !.started = @ + 1]
       IN  IF AtLimit(window, limiter.rate_limit_max)
           THEN LET wait_time == RateWindow - (time - window[1]) + WaitMargin
                IN  limiter' = [l EXCEPT
                        !.rate_limit_window = window,
                        !.task[t] = [pc |-> "sleeping",
                                     wake |-> time + wait_time]]
           ELSE limiter' = [l EXCEPT
                    !.rate_limit_window = Append(window, time),
                    !.passed = Append(@, time)]
    /\ UNCHANGED << now, breakerVars, embedVars, searchVars, catalogVars,
                    embCacheVars, vectVars, batchVars, simVars, slackVars,
                    textVars, commandVars, reactVars >>

\* The sleep is over: the window is cleaned again and the timestamp is
\* appended, whatever the length of the window is by then.
CheckRateLimitResume(t) ==
    /\ limiter.task[t].pc = "sleeping"
    /\ limiter.clock >= limiter.task[t].wake
    /\ LET time == limiter.clock
           window == Recent(limiter.rate_limit_window, time)
       IN  limiter' = [limiter EXCEPT
               !.rate_limit_window = Append(window, time),
               !.passed = Append(@, time),
               !.task[t] = [pc |-> "idle", wake |-> 0]]
    /\ UNCHANGED << now, breakerVars, embedVars, searchVars, catalogVars,
                    embCacheVars, vectVars, batchVars, simVars, slackVars,
                    textVars, commandVars, reactVars >>

\* Time passes: by a tick, or up to the end of a sleep.
LimiterClock(time) ==
    /\ time > limiter.clock
    /\ time <= MaxLimiterClock
    /\ \/ time = limiter.clock + LimiterTick
       \/ \E t \in LimiterTasks :
             limiter.task[t].pc = "sleeping" /\ time = limiter.task[t].wake
    /\ limiter' = [limiter EXCEPT !.clock = time]
    /\ UNCHANGED << now, breakerVars, embedVars, searchVars, catalogVars,
                    embCacheVars, vectVars, batchVars, simVars, slackVars,
                    textVars, commandVars, reactVars >>

CheckLimit == \E t \in LimiterTasks : CheckRateLimit(t)

ResumeLimit == \E t \in LimiterTasks : CheckRateLimitResume(t)

AdvanceClock == \E time \in 1..MaxLimiterClock : LimiterClock(time)

\* set_rate_limit(N): rate_limit_max = N and an empty window.
InitLimiter ==
    /\ now = 0
    /\ IdleBreaker
    /\ IdleEmbed
    /\ IdleSearch
    /\ IdleCatalog
    /\ IdleEmbCache
    /\ IdleVect
    /\ IdleBatch
    /\ IdleSim
    /\ IdleSlack
    /\ IdleText
    /\ IdleCommand
    /\ IdleReact
    /\ \E n \in 1..MaxRateLimit :
          limiter = [NoLimiter EXCEPT !.rate_limit_max = n]

NextLimiter == CheckLimit \/ ResumeLimit \/ AdvanceClock

SpecLimiter == InitLimiter /\ [][NextLimiter]_vars

\* C27: no exception leaves handle_message: when the embedding request, the
\* similarity search or the posting of the reactions fails, the handling of
\* the message ends with no reaction added and nothing raised, and the
\* handler is ready for the next message.
C27_HandleMessageNeverRaises ==
    /\ ~slack.raised
    /\ slack.status # "raised"
    /\ slack.status \in {"error", "caught"}
          => (slack.pc = "idle" /\ slack.posted = 0)
    /\ (slack.pc = "idle" /\ slack.handled < MaxMessages)
          => ENABLED SlackStart("normal")

\* After a message whose embedding request failed and one whose search
\* failed, a further message got its reactions.
C27_Witness ==
    /\ slack.pc = "idle"
    /\ {"embedding", "search"} \subseteq slack.failures
    /\ slack.status = "success"
    /\ slack.posted = 2

\* C25: with the store available, a similarity search succeeds exactly when
\* the query vector has 1536 components; with any other length it ends
\* with the dimension error and no query has been executed.
C25_SucceedsIffDimension ==
    sim.result # "none"
        => /\ sim.dim = VectorDim
                => (sim.result = "ok" \/ sim.result = "store_error")
           /\ sim.dim # VectorDim
                => (sim.result = "dimension_error" /\ sim.executed = 0
                    /\ sim.results = << >>)
           /\ sim.result = "ok" => (sim.dim = VectorDim /\ sim.executed = 1)

\* A vector one component too long was rejected, over a table with a row
\* that a query would have returned.
C25_Witness ==
    /\ sim.result = "dimension_error"
    /\ sim.dim = VectorDim + 1
    /\ sim.limit > 0
    /\ \E j \in DOMAIN sim.table : Where(sim.table[j], sim.filters)

\* C28: the returned list has at most limit elements, for every limit from
\* 0 on and every table.
C28_AtMostLimit ==
    sim.result = "ok" => Len(sim.results) <= sim.limit

\* More rows match than limit allows, and limit rows were returned.
C28_Witness ==
    /\ sim.result = "ok"
    /\ sim.limit = 1
    /\ Len(sim.results) = 1
    /\ Cardinality({j \in DOMAIN sim.table :
                       Where(sim.table[j], sim.filters)}) = 2

\* C29: along the returned list similarity_score never increases.
C29_ScoresNonIncreasing ==
    sim.result = "ok"
        => \A k \in 1..(Len(sim.results) - 1) :
               sim.results[k].similarity_score
                   >= sim.results[k + 1].similarity_score

\* Two rows of different scores were returned.
C29_Witness ==
    /\ sim.result = "ok"
    /\ Len(sim.results) = 2
    /\ sim.results[1].similarity_score > sim.results[2].similarity_score

\* A row has, for each of the three keys present in f, the value given.
HoldsEach(row, f) ==
    /\ f.emotion_tone # NoFilter => row.emotion_tone = f.emotion_tone
    /\ f.category # NoFilter => row.category = f.category
    /\ f.usage_scene # NoFilter => row.usage_scene = f.usage_scene

\* C30: every returned row has an embedding and has, for each of
\* emotion_tone, category and usage_scene that is a key of filters, the
\* value given for it; a key other than these three changes nothing: the
\* call does not fail for it and the rows left out are those without
\* embedding, those that miss a filter, and those cut by the limit.
C30_FiltersHoldTogether ==
    sim.result = "ok"
        => /\ \A k \in DOMAIN sim.results :
                  /\ sim.results[k].row.distance # Null
                  /\ HoldsEach(sim.results[k].row, sim.filters)
           /\ Len(sim.results) < sim.limit
                => \A j \in DOMAIN sim.table :
                       (sim.table[j].distance # Null
                        /\ HoldsEach(sim.table[j], sim.filters))
                           => \E k \in DOMAIN sim.results :
                                  sim.results[k].id = j

\* Two filters and another key were given; one row holds both and is
\* returned, another holds only one of them and is not.
C30_Witness ==
    /\ sim.result = "ok"
    /\ sim.filters.category # NoFilter
    /\ sim.filters.emotion_tone # NoFilter
    /\ sim.filters.other
    /\ Len(sim.results) = 1
    /\ sim.limit = 2

\* C31: every returned similarity_score lies between 0.0 and 1.0 (0 and 10
\* tenths); a returned row whose distance is NaN or greater than 1 has the
\* score 0.0 exactly, and so has a NULL distance by the CASE expression.
C31_ScoreWithinUnitInterval ==
    /\ similarity_score(Null) = 0
    /\ sim.result = "ok"
        => \A k \in DOMAIN sim.results :
               LET d == sim.results[k].row.distance
                   score == sim.results[k].similarity_score
               IN  /\ 0 <= score /\ score <= 10
                   /\ (d = NaN \/ d = Null \/ d > 10) => score = 0

\* A row of NaN distance and a row of distance 1.5 were both returned.
C31_Witness ==
    /\ sim.result = "ok"
    /\ Len(sim.results) = 2
    /\ \E k \in DOMAIN sim.results : sim.results[k].row.distance = NaN
    /\ \E k \in DOMAIN sim.results : sim.results[k].row.distance = 15
    /\ \E j \in DOMAIN sim.table :
          /\ sim.table[j].distance # Null
          /\ sim.table[j].category = sim.filters.category
          /\ sim.table[j].emotion_tone # sim.filters.emotion_tone

\* C26: a call of EmojiService.find_similar_emojis whose search failed (the
\* store rejected the vector's dimension, the store raised, or the breaker
\* was open) ends with the failure raised to its caller; a list reaches the
\* caller only from a search that succeeded.
C26_FailureIsRaised ==
    /\ search.result \in {"error", "breaker_open"}
          => search.delivered = "raised"
    /\ search.delivered \in {"list", "empty"} => search.result = "ok"
    /\ search.delivered = "list" => search.queried

\* A search rejected for its dimension, after one rejected by a store error:
\* the caller got the exception.
C26_Witness ==
    /\ search.pc = "idle"
    /\ search.cause = "dimension_error"
    /\ search.delivered = "raised"
    /\ search.preFails >= 1

\* C21: in a run with continue_on_error=true that returned its summary and
\* in which no batch update raised, the rows of every chunk whose
\* get_embeddings_batch call did not raise are written to the table, failed
\* is the number of rows of the chunks whose call raised and successful is
\* the number of rows of the other chunks.
C21_OtherChunksPersisted ==
    LET all == {brun.ids[k] : k \in DOMAIN brun.ids}
        others == all \ brun.providerFailed
    IN  ( /\ brun.result = "summary"
          /\ brun.continue_on_error
          /\ brun.storeFailed = {} )
            => /\ brun.persisted = others
               /\ \A j \in DOMAIN vstore.rows :
                      vstore.rows[j].embedded <=> vstore.rows[j].id \in others
               /\ brun.failed = Cardinality(brun.providerFailed)
               /\ brun.successful = Cardinality(others)

\* Five rows in chunks of two: the second chunk failed, the first and the
\* third were written, and the summary has successful = 3 and failed = 2.
C21_Witness ==
    /\ brun.result = "summary"
    /\ brun.continue_on_error
    /\ brun.storeFailed = {}
    /\ brun.batch_size = 2
    /\ brun.providerFailed = {3, 4}
    /\ brun.persisted = {1, 2, 5}
    /\ brun.successful = 3
    /\ brun.failed = 2

\* C22: in a run with continue_on_error=false the first chunk whose
\* embedding call or batch update raises ends the run with that exception
\* and no summary; no call of the provider or of the store follows it, and
\* the rows of the chunks before it stay written.
C22_FirstFailureAborts ==
    ( /\ ~brun.continue_on_error
      /\ brun.providerFailed \cup brun.storeFailed # {} )
        => /\ brun.pc = "idle"
           /\ brun.result = "raised"
           /\ brun.lateCalls = 0
           /\ brun.persisted = {brun.ids[k] : k \in 1..brun.i}
           /\ \A j \in DOMAIN vstore.rows :
                  vstore.rows[j].embedded <=> vstore.rows[j].id \in brun.persisted
           /\ brun.providerFailed \cup brun.storeFailed = BatchIds(brun)

\* The second of three chunks failed: the first is written, the third was
\* never sent.
C22_Witness ==
    /\ ~brun.continue_on_error
    /\ brun.result = "raised"
    /\ brun.batch_size = 2
    /\ brun.i = 2
    /\ Len(brun.ids) = 5
    /\ brun.persisted = {1, 2}
    /\ brun.providerFailed = {3, 4}

\* C23 as stated: embedding_updates never holds more than batch_size
\* entries, and only rows of the chunk at hand, whatever calls of the
\* provider and of the store fail.
C23_UpdatesBoundedByChunk ==
    brun.pc # "idle"
        => /\ Cardinality(brun.embedding_updates) <= brun.batch_size
           /\ brun.embedding_updates \subseteq BatchIds(brun)

\* C16: a call with dry_run=true makes no embedding request and no call of
\* batch_update_embeddings, whatever skip_existing, category and
\* emotion_tone are: it never reaches the embedding loop.
C16_DryRunCallsNothing ==
    vrun.opts.dry_run
        => /\ vrun.calls = 0
           /\ vrun.writes = 0
           /\ vrun.pc = "idle"
           /\ vrun.updates = {}

\* A dry run over rows that survive skip_existing and both filters, while
\* other rows are skipped and filtered out, has returned its summary.
C16_Witness ==
    /\ vrun.opts.dry_run
    /\ vrun.result = "dry_summary"
    /\ vrun.opts.skip_existing
    /\ vrun.opts.category # NoFilter
    /\ vrun.opts.emotion_tone # NoFilter
    /\ vrun.total > 0
    /\ vrun.skipped > 0
    /\ vrun.filtered_out > 0

\* C13 as stated: the entry an insertion evicts is the one whose most
\* recent access (insertion or cache hit) is the oldest, and after a cache
\* hit the hit entry is the most recently used one.
C13_EvictsLeastRecentlyUsed ==
    /\ ecHist.evictions > 0 => ecHist.evicted = ecHist.lru
    /\ ecHist.last.kind = "hit"
       => /\ emb_cache # << >>
          /\ emb_cache[Len(emb_cache)].key = ecHist.last.key

\* C14: with the cache enabled with max_size = N it holds at most N entries
\* in every state, that is wherever another task can run, with concurrent
\* get_embedding calls that may miss on the same key.
C14_CacheNeverExceedsMaxSize ==
    emb_cache_enabled => Len(emb_cache) <= cache_max_size

\* An eviction has happened, the cache is full, and an entry was written by
\* two calls that missed on the same key.
C14_Witness ==
    /\ emb_cache_enabled
    /\ cache_max_size >= 1
    /\ Len(emb_cache) = cache_max_size
    /\ ecHist.evictions > 0
    /\ \E k \in Keys : Cardinality(ecHist.seen[k]) = 2

C11_DeletedCodeNotCached ==
    /\ \A i \in Ids :
          (catHist.gone[i] /\ \A t \in Tasks : task[t].pc = "idle")
          => emoji_cache[CodeOf(i)] = None
    /\ catHist.lastGet.gone => catHist.lastGet.result = None

\* C12 as stated: with caching enabled a get_emoji_by_code(c) that finds c
\* cached returns the cached record without querying the store; otherwise it
\* queries the store and writes the cache exactly when a record was found;
\* and a lookup of a code the store does not hold queries the store.
C12_HitOrQueryAndCacheFound ==
    LET g == catHist.lastGet
    IN  (cache_enabled /\ g.id # 0)
        => /\ g.hit # None => (~g.queried /\ g.result = g.hit)
           /\ g.hit = None => (g.queried /\ (g.put <=> g.result # None))
           /\ g.absent => g.queried

\* C17: when the run before was a run with skip_existing=true that returned
\* its summary with every surviving row embedded and written to the table
\* (with no filter, or with the filters of this run), a run with
\* skip_existing=true finds no row to process: it makes no embedding
\* request and reports processed = 0 (would_process = 0 in a dry run).
C17_SecondRunProcessesNothing ==
    ( /\ vHist.prev.clean
      /\ vHist.prev.skip_existing
      /\ vrun.opts.skip_existing
      /\ \/ /\ vHist.prev.category = NoFilter
            /\ vHist.prev.emotion_tone = NoFilter
         \/ /\ vHist.prev.category = vrun.opts.category
            /\ vHist.prev.emotion_tone = vrun.opts.emotion_tone )
        => /\ vrun.survivors = {}
           /\ vrun.total = 0
           /\ vrun.processed = 0
           /\ vrun.calls = 0
           /\ vrun.writes = 0

\* The first run embedded rows and wrote them, and the second run has
\* returned its summary.
C17_Witness ==
    /\ vHist.runs = 2
    /\ vHist.prev.clean
    /\ vHist.prev.skip_existing
    /\ vHist.prev.processed > 0
    /\ vHist.prev.category = NoFilter
    /\ vHist.prev.emotion_tone = NoFilter
    /\ vrun.opts.skip_existing
    /\ ~vrun.opts.dry_run
    /\ vrun.result = "summary"
    /\ vrun.processed = 0
    /\ vrun.skipped > 1

\* C18 as stated: in a returned summary, skipped is the number of rows of
\* the table excluded by skip_existing (the rows with an embedding, when
\* skip_existing is set), none of them is counted in filtered_out, and
\* filtered_out is the number of the other rows of the table that fail the
\* category filter or the emotion_tone filter, each counted once.
C18_SkippedBeforeFilteredOut ==
    vrun.result \in {"summary", "dry_summary"}
        => /\ vrun.skipped = vrun.embeddedRows
           /\ vrun.filtered_out = vrun.failingRows

\* C19 as stated: the total of a returned summary, len(all_emojis), is the
\* number of rows of the whole table, whatever its size.
C19_TotalIsCatalogSize ==
    vrun.result = "summary" => vrun.fetched = vrun.rows

\* C20: whatever subset of the surviving rows has its embedding request
\* fail, all of them included, the run goes on to its summary (it raises
\* only when the batch update itself raised), processed is the number of
\* surviving rows whose request succeeded, and the batch update is made of
\* exactly those rows (none is made when no request succeeded); after it,
\* those rows are embedded in the table.
C20_FailedRowsLeftOut ==
    LET succeeded == vrun.survivors \ vrun.failed
    IN  /\ (vrun.failed # {} /\ vrun.pc = "idle")
            => \/ vrun.result = "summary"
               \/ vrun.storeFailed /\ vrun.writes = 1
        /\ vrun.result = "summary"
            => /\ vrun.processed = Cardinality(succeeded)
               /\ vrun.updates = succeeded
               /\ succeeded # {} => (vrun.writes = 1 /\ vrun.sent = succeeded)
               /\ succeeded = {} => vrun.writes = 0
               /\ \A j \in DOMAIN vstore.rows :
                      vstore.rows[j].id \in succeeded
                          => vstore.rows[j].embedded
        /\ vrun.pc = "flush" => vrun.updates = succeeded /\ succeeded # {}

\* One surviving row failed, another succeeded and was written, and the
\* summary was returned.
C20_Witness ==
    /\ vrun.result = "summary"
    /\ Cardinality(vrun.failed) = 1
    /\ Cardinality(vrun.survivors) = 2
    /\ vrun.processed = 1
    /\ vrun.writes = 1
    /\ \E j \in DOMAIN vstore.rows :
          vstore.rows[j].id \in vrun.failed /\ ~vstore.rows[j].embedded

\* The surviving rows after the fill rows, in row order.
LaterSurvivors ==
    SelectSeq(vstore.rows, LAMBDA e : e.id \in vrun.survivors)

\* C24 as stated: when the embedding loop is over, progress_callback has
\* been called once for each surviving row, in row order, with the place of
\* the row among the surviving rows (from 1), the number of surviving rows
\* and the row; the places reported increase and none exceeds the total.
C24_OneCallbackPerSurvivingRow ==
    (vrun.pc = "flush" \/ vrun.result = "summary")
        => /\ vrun.progressFill + Len(vrun.progress) = vrun.total
           /\ Len(vrun.progress) = Len(LaterSurvivors)
           /\ \A k \in 1..Len(vrun.progress) :
                  /\ vrun.progress[k].row = LaterSurvivors[k].id
                  /\ vrun.progress[k].current = vrun.progressFill + k
                  /\ vrun.progress[k].total = vrun.total
                  /\ vrun.progress[k].current <= vrun.total

\* C32: every text-based similarity search queries the store with the
\* vector that get_embedding gave for the supplied text.
C32_QueriesWithEmbeddingOfText ==
    tsearch.queries > 0 /\ tsearch.pc = "idle" /\ tsearch.result = "ok"
        => /\ tsearch.produced \in Vectors
           /\ tsearch.queried = tsearch.produced

\* C33: when get_embedding rejects the description of a surviving row as
\* empty text, the validation error leaves vectorize_all_emojis: the call
\* does not end with a summary.
C33_ValidationErrorPropagates ==
    (vrun.pc = "idle" /\ vrun.invalid # {}) => vrun.result = "raised"

\* The place of a permission in VIEWER < EDITOR < ADMIN.
Rank(p) == CASE p = "viewer" -> 1 [] p = "editor" -> 2 [] p = "admin" -> 3

\* C34 as stated: check_permission(user, required) returns true if and
\* only if the level stored for the user, VIEWER when the user has no row,
\* is at least required.
C34_TrueIffStoredLevelSuffices ==
    cmd.check.made
        => LET stored == perms[cmd.check.user]
               level == IF stored = NoRow THEN "viewer" ELSE stored
           IN  cmd.check.result <=> Rank(level) >= Rank(cmd.check.required)

\* C34 amended: check_permission(user, required) returns true if and only
\* if the user's level is at least required, where the level is the one
\* stored for the user when the row was read, and VIEWER when the user has
\* no row or the read of the row failed.
C34_TrueIffLevelReadSuffices ==
    cmd.check.made
        => LET stored == perms[cmd.check.user]
               level == IF stored = NoRow \/ ~cmd.check.readOk
                        THEN "viewer" ELSE stored
           IN  cmd.check.result <=> Rank(level) >= Rank(cmd.check.required)

\* A user stored as EDITOR was checked against EDITOR and passed.
C34_Witness ==
    /\ cmd.check.made
    /\ cmd.check.readOk
    /\ perms[cmd.check.user] = "editor"
    /\ cmd.check.required = "editor"
    /\ cmd.check.result

\* The level each gated subcommand requires.
RequiredFor(subcommand) ==
    CASE subcommand = "list" -> "viewer"
      [] subcommand \in {"add", "delete"} -> "editor"
      [] subcommand = "vectorize" -> "admin"

\* C35: for list, add, delete and vectorize the handler asks
\* check_permission for VIEWER, EDITOR, EDITOR and ADMIN; calls on the
\* emoji service or the modal are made only when it returned true, and
\* when it returned false none is made and the response is the
\* permission-denied message naming the required level.
C35_ActionOnlyAfterPermission ==
    cmd.subcommand \in {"list", "add", "delete", "vectorize"}
        => /\ cmd.check.made
           /\ cmd.check.user = cmd.user
           /\ cmd.check.required = RequiredFor(cmd.subcommand)
           /\ cmd.calls # {} => cmd.check.result
           /\ cmd.response.kind = "done" => cmd.check.result
           /\ ~cmd.check.result
                => /\ cmd.calls = {}
                   /\ cmd.response =
                          [kind |-> "permission_denied",
                           required |-> RequiredFor(cmd.subcommand)]

\* An EDITOR asked for vectorize and was denied; no call was made.
C35_Witness ==
    /\ cmd.subcommand = "vectorize"
    /\ cmd.user \in Users
    /\ perms[cmd.user] = "editor"
    /\ cmd.check.readOk
    /\ ~cmd.check.result
    /\ cmd.calls = {}
    /\ cmd.response = [kind |-> "permission_denied", required |-> "admin"]

\* C40: vectorize_all_emojis is started by the handler only for a user for
\* whom check_permission(user, ADMIN) has returned true.
C40_StartedOnlyForAdmitted ==
    cmd.started \subseteq cmd.admitted

\* Every one of the max_retries + 1 attempts of task j failed, none with
\* already_reacted.
AllAttemptsFailed(j) ==
    /\ Len(react.log[j]) = DEFAULT_MAX_RETRIES + 1
    /\ \A k \in DOMAIN react.log[j] :
          react.log[j][k] \notin {"ok", "already_reacted",
                                  "slack_already_reacted"}

\* C36: a reaction whose max_retries + 1 attempts all failed with an error
\* other than already_reacted ends by raising, and add_reactions counts it
\* in failed_reactions and not in successful_reactions.
C36_ExhaustedReactionCountsFailed ==
    LET exhausted == {j \in 1..react.n : AllAttemptsFailed(j)}
    IN  /\ \A j \in exhausted : react.end[j] = "raised"
        /\ (react.pc = "idle" /\ react.finished = 1)
              => /\ react.failed_reactions >= Cardinality(exhausted)
                 /\ react.successful_reactions
                        <= react.n - Cardinality(exhausted)

\* C37: after set_rate_limit(N) at most N calls of _check_rate_limit pass
\* within any window of 60 seconds, however the tasks interleave: of the
\* passes up to any pass, at most N are less than 60 seconds before it.
C37_AtMostNPerWindow ==
    \A i \in DOMAIN limiter.passed :
        Cardinality({j \in 1..i :
                        limiter.passed[i] - limiter.passed[j] < RateWindow})
            <= limiter.rate_limit_max

\* C38: when vectorize_emojis_batch returns with continue_on_error=true
\* (and a positive batch_size), successful + failed is the number of rows
\* read, whatever chunks failed at the provider or at the store.
C38_CountsAddUpToRowsRead ==
    (brun.result = "summary" /\ brun.continue_on_error /\ brun.batch_size > 0)
        => brun.successful + brun.failed = Len(brun.ids)

\* C39: no row whose own embedding request failed is written to the store
\* or counted as successful: the persisted rows are rows whose request
\* returned a vector.
C39_NoFailedRowPersisted ==
    /\ brun.persisted \cap brun.zeroed = {}
    /\ brun.successful
          <= Len(brun.ids) - Cardinality(brun.providerFailed \cup brun.zeroed)

====
